---- MODULE Spec2Model ----
(***************************************************************************)
(* The contract maintenance engine of the renter's contractor              *)
(* (modules/renter/contractor/contractmaintenance.go): duplicate           *)
(* resolution, utility classification, renew/refresh planning, budgeted    *)
(* execution, gap filling, and the maintenance lock with its interrupt.    *)
(***************************************************************************)
EXTENDS Integers, Sequences, FiniteSets, TLC

(***************************************************************************)
(* Bounds of the model.                                                    *)
(***************************************************************************)
\* number of hosts known to the host directory
NumHosts == 2
\* largest number of contracts in the contract set when the contractor starts
MaxInitContracts == 3
\* number of contracts that negotiation may create in one behaviour
MaxNewContracts == 1
\* largest block height the consensus set reaches
MaxHeight == 3
\* largest funding amount the estimator returns
MaxAmount == 1
\* largest part of the allowance that is still unallocated when a pass begins
MaxBudget == 2
\* largest value a failed-renew counter is driven to
MaxFailures == 2
\* number of invocations of threadedContractMaintenance that run concurrently
NumPasses == 2
\* number of concurrent callers of managedInterruptContractMaintenance
NumCallers == 2

(***************************************************************************)
(* Program constants and the allowance.                                    *)
(***************************************************************************)
\* consecutiveRenewalsBeforeReplacement: failed renews before a contract is
\* given up on (the constant is declared outside contractmaintenance.go)
consecutiveRenewalsBeforeReplacement == 2

\* minContractFundUploadThreshold and minContractFundRenewalThreshold, in percent
\* of a contract's TotalCost (declared outside contractmaintenance.go)
minContractFundUploadThreshold == 5
minContractFundRenewalThreshold == 3

\* the allowances a renter sets: modules.Allowance
AllowanceFunds == 6
AllowanceHosts == 2
AllowancePeriod == 2
AllowanceRenewWindow == 2

Allowances ==
    [Funds : {AllowanceFunds}, Hosts : {0, AllowanceHosts},
     Period : {AllowancePeriod}, RenewWindow : {AllowanceRenewWindow}]

Hosts == 1..NumHosts

\* the invocations of threadedContractMaintenance that run next to one another
Passes == 1..NumPasses

\* the callers of managedInterruptContractMaintenance
Callers == 1..NumCallers

\* the holder of the maintenance lock that is the goroutine of caller i
Observer(i) == NumPasses + i
MaxID == MaxInitContracts + MaxNewContracts

(***************************************************************************)
(* Maps: Go maps are functions over their key set.                         *)
(***************************************************************************)
EmptyMap == [x \in {} |-> 0]

Put(f, k, v) == [x \in DOMAIN f \cup {k} |-> IF x = k THEN v ELSE f[x]]

Del(f, k) == [x \in DOMAIN f \ {k} |-> f[x]]

\* the keys among `name`'s that a write of v under k gives a different value
Overwrites(name, f, k, v) ==
    IF k \in DOMAIN f /\ f[k] # v THEN {<<name, k>>} ELSE {}

\* every visiting order of a set: the iteration order of ViewAll() is the
\* iteration order of a Go map
Orders(S) ==
    {s \in [1..Cardinality(S) -> S] : \A i, j \in DOMAIN s : i # j => s[i] # s[j]}

(***************************************************************************)
(* State.                                                                  *)
(***************************************************************************)
VARIABLES
    contracts,            \* c.staticContracts: id -> contract metadata (the live set)
    oldContracts,         \* c.oldContracts: id -> metadata of superseded contracts
    renewedFrom,          \* c.renewedFrom: new id -> old id
    renewedTo,            \* c.renewedTo: old id -> new id
    numFailedRenews,      \* c.numFailedRenews: id -> consecutive failed renews
    pubKeysToContractID,  \* c.pubKeysToContractID: <<key format, host>> -> id
    renewing,             \* c.renewing: ids marked as being renewed
    blockHeight,          \* c.blockHeight
    allowance,            \* c.allowance
    nextID,               \* the id the next negotiated contract gets
    maintenanceLock,      \* c.maintenanceLock: 0 when free, else its holder
    pc,                   \* where the maintenance pass is
    rpc,                  \* where managedRenewContract is within a work item
    idx,                  \* loop index of the running loop
    renewSet,             \* this pass's renewSet
    refreshSet,           \* this pass's refreshSet
    fundsRemaining,       \* this pass's fundsRemaining
    newID,                \* id of the contract managedRenew returned
    hosts,                \* candidate hosts of gap filling
    neededContracts,      \* gap filling's neededContracts
    ret,                  \* what the work item returned: fundsSpent and err
    startFunds,           \* history: fundsRemaining when budgeted execution began
    spent,                \* history: funds reported spent by renewals and refreshes
    handled,              \* history: ids of the work items attempted or skipped
    events,               \* history: what the pass did since it polled the signals
    blacklisted,          \* history: ids given up on after repeated host-fault failures
    overwritten,          \* history: keys of renewedFrom/renewedTo written a second time
    release,              \* build.Release
    tpc,                  \* where each invocation of threadedContractMaintenance is
    ipc,                  \* where each caller of managedInterruptContractMaintenance is
    opc,                  \* where the goroutine each caller spins up is
    heldAtCall,           \* history: the holder of the lock when each call began
    pending,              \* history: the passes a call began under, not yet released
    estIn,                \* the arguments and the contractor state of one estimate
    estOut,               \* what managedEstimateRenewFundingRequirements returned
    planIn,               \* the contractor and host directory state a planner reads
    planOut,              \* the work lists of the planner's runs over planIn
    markIn,               \* a contract and what the classifier reads to classify it
    markOut,              \* the utility the classifier computed for markIn
    stopChan,             \* c.tg.StopChan(): whether the renter has been stopped
    session,              \* c.sessions[id] of the contract that is being renewed
    sessions,             \* c.editors, c.downloaders, c.sessions: the ids registered in each
    quiesce,              \* managedRenewContract's eok, dok, sok
    acquired,             \* the ids that c.staticContracts has handed out
    recoverableContracts, \* c.recoverableContracts: the hosts of the contracts to recover
    allowanceUsed,        \* history: the allowance each decision of the pass has read
    wallet                \* the wallet, and what its last NFT call did and returned

contractorVars == <<contracts, oldContracts, renewedFrom, renewedTo, numFailedRenews,
                    pubKeysToContractID, renewing, blockHeight, allowance, nextID>>

passVars == <<maintenanceLock, pc, rpc, idx, renewSet, refreshSet,
              fundsRemaining, newID, hosts, neededContracts, ret>>

historyVars == <<startFunds, spent, handled, events>>

\* the state of the invocations that run next to one another
concVars == <<release, tpc, ipc, opc, heldAtCall, pending>>

\* the state of one pass, the maintenance lock aside
engineVars == <<contractorVars, pc, rpc, idx, renewSet, refreshSet, fundsRemaining,
                newID, hosts, neededContracts, ret, historyVars, blacklisted,
                overwritten>>

\* the estimator and the planner taken on their own
pureVars == <<estIn, estOut, planIn, planOut, markIn, markOut>>

\* what managedRenewContract reads and holds before it negotiates
renewVars == <<sessions, quiesce, acquired>>

\* the stop signal of the renter and the session a renewal has to invalidate
stopVars == <<stopChan, session, renewVars, recoverableContracts, allowanceUsed,
              wallet>>

\* stopVars without the ids the contract set has handed out
notAcquired == <<stopChan, session, sessions, quiesce, recoverableContracts,
                 allowanceUsed, wallet>>

\* the engine, its lock, its callers and its signals
machineVars == <<contractorVars, passVars, historyVars, blacklisted, overwritten,
                 concVars, stopVars>>

vars == <<contractorVars, passVars, historyVars, blacklisted, overwritten, concVars,
          pureVars, stopVars>>

(***************************************************************************)
(* Contracts.                                                              *)
(***************************************************************************)
Utility(gfu, gfr, locked) ==
    [GoodForUpload |-> gfu, GoodForRenew |-> gfr, Locked |-> locked]

\* the block height at which the contractor starts
InitHeight == 1
\* end height of the contracts the contractor starts with
InitEndHeight == 4
\* total cost of the contracts the contractor starts with
InitTotalCost == 1

\* a contract the contractor starts with
InitContract(h, startHeight) ==
    [HostPublicKey |-> h,
     StartHeight |-> startHeight,
     EndHeight |-> InitEndHeight,
     RenterFunds |-> InitTotalCost,
     TotalCost |-> InitTotalCost,
     Utility |-> Utility(TRUE, TRUE, FALSE)]

\* The contract sets the contractor starts with.  One contract with each host
\* is the regular case; a renter that has just set its allowance has none.  Several contracts with one host, the last of them the
\* newest, are what a recovery or an interrupted renewal leave behind, and
\* what managedCheckForDuplicates resolves.
InitContractSets ==
    {[i \in 1..n |-> InitContract(1, IF i = n THEN InitHeight ELSE 0)]
        : n \in 1..MaxInitContracts}
    \cup {[i \in 1..NumHosts |-> InitContract(i, 0)]}
    \cup {EmptyMap}

\* the key c.pubKeysToContractID is written under: contract.HostPublicKey.String()
StringKey(h) == <<"String", h>>

\* the key managedCheckForDuplicates writes: string(newContract.HostPublicKey.Key)
RawKey(h) == <<"Key", h>>

\* the index the contractor builds from the contract set when it is created
PubKeyIndex(cs) ==
    LET hs == {cs[i].HostPublicKey : i \in DOMAIN cs}
        Latest(h) == CHOOSE i \in DOMAIN cs :
                        /\ cs[i].HostPublicKey = h
                        /\ \A j \in DOMAIN cs : cs[j].HostPublicKey = h => j <= i
    IN  [k \in {StringKey(h) : h \in hs} |-> Latest(k[2])]

\* the values a work item returns, and the value of no return
Returned(fundsSpent, err) == [fundsSpent |-> fundsSpent, err |-> err]

NoReturn == Returned(0, FALSE)

\* the invocations that run next to one another, before any of them began
InitConc ==
    /\ tpc = [t \in Passes |-> "idle"]
    /\ ipc = [i \in Callers |-> "idle"]
    /\ opc = [i \in Callers |-> "none"]
    /\ heldAtCall = [i \in Callers |-> 0]
    /\ pending = [i \in Callers |-> {}]

\* the contractor and its pass, before the first pass
InitEngine ==
    /\ oldContracts = EmptyMap
    /\ renewedFrom = EmptyMap
    /\ renewedTo = EmptyMap
    /\ numFailedRenews = EmptyMap
    /\ pubKeysToContractID = PubKeyIndex(contracts)
    /\ renewing = {}
    /\ blockHeight = InitHeight
    /\ nextID = MaxInitContracts + 1
    /\ maintenanceLock = 0
    /\ pc = "idle"
    /\ rpc = "none"
    /\ idx = 1
    /\ renewSet = <<>>
    /\ refreshSet = <<>>
    /\ fundsRemaining = 0
    /\ newID = 0
    /\ hosts = <<>>
    /\ neededContracts = 0
    /\ ret = NoReturn
    /\ startFunds = 0
    /\ spent = 0
    /\ handled = {}
    /\ blacklisted = {}
    /\ overwritten = {}
    /\ events = <<>>

\* no estimate and no plan has been asked for
(***************************************************************************)
(* The wallet's NFT calls (modules/wallet/nft.go).  An error is a string,  *)
(* Nil the nil error and the nil transaction set.                          *)
(***************************************************************************)
Nil == "nil"

ErrLockedWallet == "wallet must be unlocked before it can be used"

\* the siacoin outputs there are: a value and an unlock hash
SiacoinOutputs == [Value : {"OneBaseUnit", "more"}, UnlockHash : {"ours", "theirs"}]

\* what a call has returned, what became of its transaction builder, and
\* whether the transaction pool accepted a transaction set of it
Returns(txns, err, builder, submitted) ==
    [txns |-> txns, err |-> err, builder |-> builder, submitted |-> submitted]

\* the wallet before any NFT call
IdleWallet ==
    [synced |-> TRUE, unlocked |-> TRUE, outputs |-> {}, call |-> "none",
     found |-> FALSE, txns |-> Nil, err |-> Nil, builder |-> "none",
     submitted |-> FALSE]

\* build.ExtendErr: nil for the nil error, else the error with s put before it
ExtendErr(str, err) == IF err = Nil THEN Nil ELSE str

\* what the environment of one call does: the errors of the thread group, of
\* StartTransaction, FundSiacoins, ViewNFTCustody, dbForEachSiacoinOutput, Sign
\* and AcceptTransactionSet, the two disrupts, and the output ViewNFTCustody gives
NFTInputs ==
    [tgErr : {Nil, "stopped"}, UnsyncedConsensus : BOOLEAN,
     startErr : {Nil, "start"}, fundErr : {Nil, "fund"}, viewErr : {Nil, "view"},
     dbErr : {Nil, "db"}, signErr : {Nil, "sign"},
     SendSiacoinsInterrupted : BOOLEAN, acceptErr : {Nil, "accept"},
     goalOutput : SiacoinOutputs]

\* preNFTWalletSetup: the error it returns
preNFTWalletSetup(w, in) ==
    IF in.tgErr # Nil THEN in.tgErr
    ELSE IF ~w.synced \/ in.UnsyncedConsensus
    THEN "cannot send siacoin until fully synced"
    ELSE IF ~w.unlocked THEN ErrLockedWallet
    ELSE Nil

\* signAndSend
signAndSend(in) ==
    IF in.signErr # Nil
    THEN Returns(Nil, ExtendErr("unable to sign transaction", in.signErr), "built", FALSE)
    ELSE IF in.SendSiacoinsInterrupted
    THEN Returns(Nil, "failed to accept transaction set (SendSiacoinsInterrupted)",
                 "signed", FALSE)
    ELSE IF in.acceptErr # Nil
    THEN Returns(Nil, ExtendErr("unable to get transaction accepted", in.acceptErr),
                 "signed", FALSE)
    ELSE Returns("txnSet", Nil, "signed", TRUE)

\* the deferred function of MintNFT and TransferNFT: "if err != nil { Drop() }"
DropOnError(r) == IF r.err # Nil THEN [r EXCEPT !.builder = "dropped"] ELSE r

\* the callback of dbForEachSiacoinOutput: an output of the wallet has the
\* value and the unlock hash of the custody output
FoundOutput(w, goalOutput) ==
    \E sco \in w.outputs :
       sco.Value = goalOutput.Value /\ sco.UnlockHash = goalOutput.UnlockHash

MintNFTReturns(w, in) ==
    LET setup == preNFTWalletSetup(w, in)
    IN  IF setup # Nil THEN Returns(Nil, setup, "none", FALSE)
        ELSE IF in.startErr # Nil THEN Returns(Nil, in.startErr, "none", FALSE)
        ELSE DropOnError(
                IF in.fundErr # Nil
                THEN Returns(Nil, ExtendErr("unable to fund transaction", in.fundErr),
                             "started", FALSE)
                ELSE signAndSend(in))

TransferNFTReturns(w, in) ==
    LET setup == preNFTWalletSetup(w, in)
    IN  IF setup # Nil THEN Returns(Nil, setup, "none", FALSE)
        ELSE IF in.startErr # Nil THEN Returns(Nil, in.startErr, "none", FALSE)
        ELSE DropOnError(
                IF in.fundErr # Nil
                THEN Returns(Nil, ExtendErr("unable to fund transaction", in.fundErr),
                             "started", FALSE)
                ELSE IF in.viewErr # Nil
                THEN Returns(Nil, ExtendErr("unable to locate NFT output for transfer",
                                            in.viewErr), "funded", FALSE)
                ELSE IF in.dbErr # Nil \/ ~FoundOutput(w, in.goalOutput)
                THEN Returns(Nil, ExtendErr("unable to locate NFT within our wallet",
                                            in.dbErr), "funded", FALSE)
                ELSE signAndSend(in))

InitPure ==
    /\ estIn = "none"
    /\ estOut = [returned |-> FALSE]
    /\ planIn = "none"
    /\ planOut = <<>>
    /\ markIn = "none"
    /\ markOut = [returned |-> FALSE]

\* the renter runs, and no session is open
InitStopChan ==
    /\ stopChan = FALSE
    /\ session = "none"
    /\ sessions = [k \in {"editor", "downloader", "session"} |-> {}]
    /\ quiesce = [k \in {"editor", "downloader", "session"} |-> FALSE]
    /\ acquired = {}
    /\ recoverableContracts = {}
    /\ allowanceUsed = EmptyMap
    /\ wallet = IdleWallet

Init ==
    /\ contracts \in InitContractSets
    /\ allowance \in Allowances
    /\ InitEngine
    /\ release = "standard"
    /\ InitConc
    /\ InitPure
    /\ InitStopChan

(***************************************************************************)
(* The end of a pass: the deferred maintenanceLock.Unlock(), and the       *)
(* pass's local variables going out of scope.                              *)
(***************************************************************************)
ExitPassHoldingTheLock ==
    /\ pc' = "idle"
    /\ rpc' = "none"
    /\ maintenanceLock' = maintenanceLock
    /\ idx' = 1
    /\ renewSet' = <<>>
    /\ refreshSet' = <<>>
    /\ fundsRemaining' = 0
    /\ newID' = 0
    /\ hosts' = <<>>
    /\ neededContracts' = 0
    /\ ret' = NoReturn
    /\ startFunds' = 0
    /\ spent' = 0
    /\ handled' = {}
    /\ events' = <<>>

ExitPass ==
    /\ pc' = "idle"
    /\ rpc' = "none"
    /\ maintenanceLock' = 0
    /\ idx' = 1
    /\ renewSet' = <<>>
    /\ refreshSet' = <<>>
    /\ fundsRemaining' = 0
    /\ newID' = 0
    /\ hosts' = <<>>
    /\ neededContracts' = 0
    /\ ret' = NoReturn
    /\ startFunds' = 0
    /\ spent' = 0
    /\ handled' = {}
    /\ events' = <<>>

(***************************************************************************)
(* threadedContractMaintenance, the exclusivity gate: the pass takes the   *)
(* maintenance lock.                                                       *)
(***************************************************************************)
StartPass ==
    /\ pc = "idle"
    /\ maintenanceLock = 0
    /\ maintenanceLock' = 1
    /\ pc' = "dups"
    /\ UNCHANGED <<contractorVars, rpc, idx, renewSet, refreshSet,
                   fundsRemaining, newID, hosts, neededContracts, ret, historyVars>>
    /\ UNCHANGED <<blacklisted, overwritten>>
    /\ UNCHANGED <<concVars, pureVars, stopVars>>

\* the consensus set grows by a block between two passes
NewBlock ==
    /\ pc = "idle"
    /\ blockHeight < MaxHeight
    /\ blockHeight' = blockHeight + 1
    /\ UNCHANGED <<contracts, oldContracts, renewedFrom, renewedTo, numFailedRenews,
                   pubKeysToContractID, renewing, allowance, nextID, passVars,
                   historyVars>>
    /\ UNCHANGED <<blacklisted, overwritten>>
    /\ UNCHANGED <<concVars, pureVars, stopVars>>

(***************************************************************************)
(* managedCheckForDuplicates.  Its state is the contractor's maps and its  *)
(* local map pubkeys; CheckDuplicate is one iteration of its loop and      *)
(* CheckDuplicates the loop from the i-th contract of ViewAll() on.        *)
(***************************************************************************)
DupNewerFirstSeen(rc, contract) == "rc"

\* c.staticContracts.Return(oldContract)
ReturnContractKept(held, id) == held

ReturnContract(held, id) == held \ {id}

\* c.staticContracts.Acquire(id) of a contract that is there
Acquire(held, id) == held \cup {id}

\* c.staticContracts.Delete(oldContract): the contract leaves the set, and with
\* it the hold on it
DeleteContract(held, id) == held \ {id}

\* managedUpdateContractUtility: "acquires a contract, updates its
\* ContractUtility and returns the contract again", whether the update fails or not
managedUpdateContractUtility(held, id) == ReturnContract(Acquire(held, id), id)

\* managedUpdateContractUtility for each of the contracts ids
RECURSIVE UpdateContractUtilities(_, _)
UpdateContractUtilities(held, ids) ==
    IF ids = {} THEN held
    ELSE LET id == CHOOSE i \in ids : TRUE
         IN  UpdateContractUtilities(managedUpdateContractUtility(held, id), ids \ {id})

\* which of the two contracts of one host is kept: rc is the one seen earlier
DupNewer(rc, contract) == IF rc.StartHeight >= contract.StartHeight THEN "rc" ELSE "contract"

\* "Link the contracts to each other and then store the old contract in the
\* record of historic contracts."
LinkDuplicates(st, newC, oldC, h) ==
    [st EXCEPT !.renewedFrom = Put(st.renewedFrom, newC, oldC),
               !.renewedTo = Put(st.renewedTo, oldC, newC),
               !.oldContracts = Put(st.oldContracts, oldC, st.contracts[oldC]),
               !.pubKeysToContractID = Put(st.pubKeysToContractID, RawKey(h), newC),
               !.contracts = Del(st.contracts, oldC),
               !.acquired = DeleteContract(Acquire(st.acquired, oldC), oldC),
               !.pubkeys = Put(st.pubkeys, h, newC),
               !.overwritten = st.overwritten
                                  \cup Overwrites("renewedFrom", st.renewedFrom, newC, oldC)
                                  \cup Overwrites("renewedTo", st.renewedTo, oldC, newC)]

\* Lines 75-86: the links, the oldContracts entry and the index are written
\* and saved; the old contract is still in the live set.
DuplicateStored(st, newC, oldC, h) ==
    [st EXCEPT !.renewedFrom = Put(st.renewedFrom, newC, oldC),
               !.renewedTo = Put(st.renewedTo, oldC, newC),
               !.oldContracts = Put(st.oldContracts, oldC, st.contracts[oldC]),
               !.pubKeysToContractID = Put(st.pubKeysToContractID, RawKey(h), newC),
               !.acquired = Acquire(st.acquired, oldC)]

\* The contract sets one duplicate passes through if it were deleted from the
\* live set before it is stored.
DuplicateDeletedFirst(st, newC, oldC, h) ==
    <<[st EXCEPT !.contracts = Del(st.contracts, oldC)],
      LinkDuplicates(st, newC, oldC, h)>>

\* The states one duplicate passes through: stored and saved (line 86), then
\* deleted (line 91).
DuplicateSteps(st, newC, oldC, h) ==
    <<DuplicateStored(st, newC, oldC, h), LinkDuplicates(st, newC, oldC, h)>>

\* The contracts of the snapshot that a state holds neither in the live set
\* nor in oldContracts.
InNeitherPlace(st) ==
    {id \in DOMAIN st.snapshot :
        id \notin DOMAIN st.contracts /\ id \notin DOMAIN st.oldContracts}

CheckDuplicate(st, cid) ==
    LET contract == st.snapshot[cid]
        h == contract.HostPublicKey
    IN  IF h \notin DOMAIN st.pubkeys
        THEN [st EXCEPT !.pubkeys = Put(st.pubkeys, h, cid)]
        ELSE LET id == st.pubkeys[h]
             IN  IF id \notin DOMAIN st.contracts
                 THEN st
                 ELSE LET rc == st.contracts[id]
                          newC == IF DupNewer(rc, contract) = "rc" THEN id ELSE cid
                          oldC == IF DupNewer(rc, contract) = "rc" THEN cid ELSE id
                      IN  IF oldC \notin DOMAIN st.contracts
                          THEN [st EXCEPT !.pubkeys = Put(st.pubkeys, h, newC)]
                          ELSE LET steps == DuplicateSteps(st, newC, oldC, h)
                               IN  [steps[2] EXCEPT !.neither =
                                       st.neither \cup InNeitherPlace(steps[1])
                                                  \cup InNeitherPlace(steps[2])]

RECURSIVE CheckDuplicates(_, _, _)
CheckDuplicates(st, o, i) ==
    IF i > Len(o) THEN st ELSE CheckDuplicates(CheckDuplicate(st, o[i]), o, i + 1)

\* Lines 38-41: the snapshot of the live set and an empty pubkeys map.
DuplicateCheckStart ==
    [snapshot |-> contracts, contracts |-> contracts,
     renewedFrom |-> renewedFrom, renewedTo |-> renewedTo,
     oldContracts |-> oldContracts,
     pubKeysToContractID |-> pubKeysToContractID,
     pubkeys |-> EmptyMap, overwritten |-> overwritten,
     acquired |-> acquired, neither |-> {}]

managedCheckForDuplicates ==
    /\ pc = "dups"
    /\ \E o \in Orders(DOMAIN contracts) :
          LET st == CheckDuplicates(DuplicateCheckStart, o, 1)
          IN  /\ contracts' = st.contracts
              /\ renewedFrom' = st.renewedFrom
              /\ renewedTo' = st.renewedTo
              /\ oldContracts' = st.oldContracts
              /\ pubKeysToContractID' = st.pubKeysToContractID
              /\ overwritten' = st.overwritten
              /\ acquired' = st.acquired
    /\ pc' = "prune"
    /\ UNCHANGED <<numFailedRenews, renewing, blockHeight, allowance, nextID,
                   maintenanceLock, rpc, idx, renewSet, refreshSet,
                   fundsRemaining, newID, hosts, neededContracts, ret, historyVars>>
    /\ UNCHANGED blacklisted
    /\ UNCHANGED <<concVars, pureVars, notAcquired>>

(***************************************************************************)
(* managedPrunePubkeyMap.                                                  *)
(***************************************************************************)
PrunedPubkeyMap(index, cs) ==
    LET pks == {StringKey(cs[i].HostPublicKey) : i \in DOMAIN cs}
    IN  [k \in DOMAIN index \cap pks |-> index[k]]

managedPrunePubkeyMap ==
    /\ pc = "prune"
    /\ pubKeysToContractID' = PrunedPubkeyMap(pubKeysToContractID, contracts)
    /\ pc' = "iprange"
    /\ UNCHANGED <<contracts, oldContracts, renewedFrom, renewedTo, numFailedRenews,
                   renewing, blockHeight, allowance, nextID, maintenanceLock, rpc, idx,
                   renewSet, refreshSet, fundsRemaining, newID, hosts,
                   neededContracts, ret, historyVars>>
    /\ UNCHANGED <<blacklisted, overwritten>>
    /\ UNCHANGED <<concVars, pureVars, stopVars>>

(***************************************************************************)
(* managedPrunedRedundantAddressRange: the contracts of the hosts that the *)
(* host directory reports as violating the address range rules are         *)
(* cancelled.                                                              *)
(***************************************************************************)
\* "contract is canceled"
IsCanceled(u) == u.Locked /\ ~u.GoodForRenew /\ ~u.GoodForUpload

CanceledUtility == Utility(FALSE, FALSE, TRUE)

managedPrunedRedundantAddressRange ==
    /\ pc = "iprange"
    /\ LET live == {i \in DOMAIN contracts : ~IsCanceled(contracts[i].Utility)}
           pks == {contracts[i].HostPublicKey : i \in live}
       IN  \E badHosts \in SUBSET pks :
           \E cids \in [badHosts -> live] :
              /\ \A h \in badHosts : contracts[cids[h]].HostPublicKey = h
              /\ contracts' = [i \in DOMAIN contracts |->
                                 IF i \in {cids[h] : h \in badHosts}
                                 THEN [contracts[i] EXCEPT !.Utility = CanceledUtility]
                                 ELSE contracts[i]]
    /\ pc' = "mark"
    /\ UNCHANGED <<oldContracts, renewedFrom, renewedTo, numFailedRenews,
                   pubKeysToContractID, renewing, blockHeight, allowance, nextID,
                   maintenanceLock, rpc, idx, renewSet, refreshSet,
                   fundsRemaining, newID, hosts, neededContracts, ret, historyVars>>
    /\ UNCHANGED <<blacklisted, overwritten>>
    /\ UNCHANGED <<concVars, pureVars, stopVars>>

(***************************************************************************)
(* managedMarkContractsUtility: the utility classifier.                    *)
(***************************************************************************)
\* what the host directory says of a contract's host
HostStates == {"missing", "filtered", "lowscore", "offline", "ok"}

\* the price of one sector of storage, upload and download with a host
SectorPrices == {0, 1}

\* what a lookup of a host returns: the prices are read of a host that is
\* there and not filtered
HostRecords ==
    {[state |-> st, sectorPrice |-> 0] : st \in HostStates \ {"ok"}}
    \cup {[state |-> "ok", sectorPrice |-> sp] : sp \in SectorPrices}

\* "Start the contract in good standing if the utility isn't locked"
StartingUtilityUnguarded(u) == [u EXCEPT !.GoodForUpload = TRUE, !.GoodForRenew = TRUE]

StartingUtility(u) ==
    IF ~u.Locked THEN [u EXCEPT !.GoodForUpload = TRUE, !.GoodForRenew = TRUE] ELSE u

\* a contract of no use for uploads that is still renewed
NoUtilityButRenewed(u) == [u EXCEPT !.GoodForUpload = FALSE]

NoUtility(u) == [u EXCEPT !.GoodForUpload = FALSE, !.GoodForRenew = FALSE]

\* percentRemaining < threshold, the threshold in percent
PercentRemainingNever(contract, threshold) == FALSE

PercentRemainingAlways(contract, threshold) == TRUE

PercentRemainingBelow(contract, threshold) ==
    contract.RenterFunds * 100 < threshold * contract.TotalCost

\* the utility the classifier computes for one contract
ClassifyUtility(contract, hostState, sectorPrice, height, renewWindow) ==
    LET u == StartingUtility(contract.Utility)
    IN  IF hostState \in {"missing", "filtered"} THEN NoUtility(u)
        ELSE IF hostState = "lowscore" THEN NoUtility(u)
        ELSE IF hostState = "offline" THEN NoUtility(u)
        ELSE IF height + renewWindow >= contract.EndHeight
             THEN [u EXCEPT !.GoodForUpload = FALSE]
        ELSE IF \/ contract.RenterFunds < sectorPrice * 3
                \/ PercentRemainingBelow(contract, minContractFundUploadThreshold)
             THEN [u EXCEPT !.GoodForUpload = FALSE]
        ELSE u

\* The loop updates the contracts of `done`; an error (of the host directory or
\* of a utility update) ends the loop before other contracts are reached, and
\* the function returns it.
managedMarkContractsUtility ==
    /\ pc = "mark"
    /\ \E err \in BOOLEAN :
       \E done \in SUBSET DOMAIN contracts :
       \E host \in [done -> HostRecords] :
          /\ err => (done # DOMAIN contracts \/ contracts = EmptyMap)
          /\ ~err => done = DOMAIN contracts
          /\ contracts' = [i \in DOMAIN contracts |->
                             IF i \in done
                             THEN [contracts[i] EXCEPT !.Utility =
                                      ClassifyUtility(contracts[i], host[i].state,
                                                      host[i].sectorPrice, blockHeight,
                                                      allowance.RenewWindow)]
                             ELSE contracts[i]]
          /\ acquired' = UpdateContractUtilities(acquired, done)
          /\ IF ~err /\ allowance.Hosts <= 0
             THEN ExitPass
             ELSE /\ pc' = IF err THEN "unmarked" ELSE "plan"
                  /\ UNCHANGED <<maintenanceLock, rpc, idx, renewSet,
                                 refreshSet, fundsRemaining, newID, hosts,
                                 neededContracts, ret, historyVars>>
    /\ UNCHANGED <<oldContracts, renewedFrom, renewedTo, numFailedRenews,
                   pubKeysToContractID, renewing, blockHeight, allowance, nextID>>
    /\ UNCHANGED <<blacklisted, overwritten>>
    /\ UNCHANGED <<concVars, pureVars, notAcquired>>

\* the pass that goes on after managedMarkContractsUtility returned an error
UnableToMarkIgnored ==
    /\ pc = "unmarked"
    /\ pc' = "plan"
    /\ UNCHANGED <<contractorVars, maintenanceLock, rpc, idx, renewSet, refreshSet,
                   fundsRemaining, newID, hosts, neededContracts, ret, historyVars>>
    /\ UNCHANGED <<blacklisted, overwritten>>
    /\ UNCHANGED <<concVars, pureVars, stopVars>>

\* "Unable to mark contract utilities": the pass returns
UnableToMark ==
    /\ pc = "unmarked"
    /\ ExitPass
    /\ UNCHANGED <<contractorVars, blacklisted, overwritten>>
    /\ UNCHANGED <<concVars, pureVars, stopVars>>

(***************************************************************************)
(* threadedContractMaintenance, planning: the renewSet and the refreshSet, *)
(* the reset of the failed-renew counters, and the funds that remain.      *)
(***************************************************************************)
\* what managedEstimateRenewFundingRequirements returns: an error or an amount
Estimates ==
    {[err |-> TRUE, amount |-> 0]} \cup {[err |-> FALSE, amount |-> a] : a \in 1..MaxAmount}

\* the TotalAllocated that PeriodSpending() reports: from MinAllocated, which
\* leaves MaxBudget of the allowance, to more than the allowance
MinAllocated == AllowanceFunds - MaxBudget
MaxAllocated == AllowanceFunds + 1

\* what the planner reads for one contract: whether its host is filtered, the
\* funding estimate (asked for inside the renew window) and the sector price
\* (read outside of it)
PlanInputs ==
    {[filtered |-> TRUE, estimate |-> [err |-> TRUE, amount |-> 0], sectorPrice |-> 0]}
    \cup {[filtered |-> FALSE, estimate |-> e, sectorPrice |-> 0] : e \in Estimates}
    \cup {[filtered |-> FALSE, estimate |-> [err |-> TRUE, amount |-> 0],
           sectorPrice |-> sp] : sp \in SectorPrices}

\* the set one contract is planned into: "renew", "refresh" or "none"
PlanOfFundsFirst(contract, filtered, estimate, sectorPrice, height, alw) ==
    IF filtered THEN "none"
    ELSE IF ~contract.Utility.GoodForRenew THEN "none"
    ELSE IF \/ contract.RenterFunds < sectorPrice * 3
            \/ contract.RenterFunds * 100 < minContractFundRenewalThreshold * contract.TotalCost
         THEN "refresh"
    ELSE IF height + alw.RenewWindow >= contract.EndHeight
         THEN IF estimate.err THEN "none" ELSE "renew"
    ELSE "none"

PlanOf(contract, filtered, estimate, sectorPrice, height, alw) ==
    IF filtered THEN "none"
    ELSE IF ~contract.Utility.GoodForRenew THEN "none"
    ELSE IF height + alw.RenewWindow >= contract.EndHeight
         THEN IF estimate.err THEN "none" ELSE "renew"
    ELSE IF \/ contract.RenterFunds < sectorPrice * 3
            \/ PercentRemainingBelow(contract, minContractFundRenewalThreshold)
         THEN "refresh"
    ELSE "none"

\* the work list of one kind, in the order the contracts are visited
WorkList(o, kind, amount) ==
    LET ids == SelectSeq(o, LAMBDA i : kind[i])
    IN  [k \in 1..Len(ids) |-> [id |-> ids[k], amount |-> amount[ids[k]]]]

WorkIDs(set) == {set[k].id : k \in 1..Len(set)}

\* the failed-renew map left as it is
ResetFailedRenewsSkipped(counters, renews, refreshes) == counters

\* "Update the failed renew map so that it only contains contracts which we
\* are currently trying to renew or refresh"
ResetFailedRenews(counters, renews, refreshes) ==
    [i \in DOMAIN counters \cap (WorkIDs(renews) \cup WorkIDs(refreshes)) |-> counters[i]]

\* fundsRemaining from the allowance and the period's TotalAllocated
FundsRemaining(funds, totalAllocated) ==
    IF totalAllocated < funds THEN funds - totalAllocated ELSE 0

PlanRenewals ==
    /\ pc = "plan"
    /\ \E o \in Orders(DOMAIN contracts) :
       \E in \in [DOMAIN contracts -> PlanInputs] :
       \E totalAllocated \in MinAllocated..MaxAllocated :
          LET plan == [i \in DOMAIN contracts |->
                         PlanOf(contracts[i], in[i].filtered, in[i].estimate,
                                in[i].sectorPrice, blockHeight, allowance)]
              renews == WorkList(o, [i \in DOMAIN contracts |-> plan[i] = "renew"],
                                 [i \in DOMAIN contracts |-> in[i].estimate.amount])
              refreshes == WorkList(o, [i \in DOMAIN contracts |-> plan[i] = "refresh"],
                                    [i \in DOMAIN contracts |-> contracts[i].TotalCost * 2])
          IN  /\ renewSet' = renews
              /\ refreshSet' = refreshes
              /\ numFailedRenews' = ResetFailedRenews(numFailedRenews, renews, refreshes)
              /\ fundsRemaining' = FundsRemaining(allowance.Funds, totalAllocated)
              /\ startFunds' = FundsRemaining(allowance.Funds, totalAllocated)
    /\ pc' = "renew"
    /\ idx' = 1
    /\ spent' = 0
    /\ handled' = {}
    /\ events' = <<>>
    /\ UNCHANGED <<contracts, oldContracts, renewedFrom, renewedTo, pubKeysToContractID,
                   renewing, blockHeight, allowance, nextID, maintenanceLock, rpc, newID,
                   hosts, neededContracts, ret>>
    /\ UNCHANGED <<blacklisted, overwritten>>
    /\ UNCHANGED <<concVars, pureVars, stopVars>>

(***************************************************************************)
(* threadedContractMaintenance, budgeted execution: the loops over the     *)
(* renewSet and then the refreshSet.                                       *)
(***************************************************************************)
\* the work list of the running loop: the renewSet is walked first
CurrentSetSwapped == IF pc = "renew" THEN refreshSet ELSE renewSet

CurrentSet == IF pc = "renew" THEN renewSet ELSE refreshSet

InLoop == pc \in {"renew", "refresh"}

\* "Skip this renewal if we don't have enough funds remaining"
SkipsRenewalReversed(amount, funds) == amount < funds

SkipsRenewal(amount, funds) == amount > funds

\* a negotiation with a host was attempted: managedRenew or managedNewContract
Negotiated(ev) == Append(ev, "negotiate")

\* c.saveSync(): the contractor's save is invoked
SaveContractorSkipped(ev) == ev

SaveContractor(ev) == Append(ev, "save")

SkipRenewal ==
    /\ InLoop /\ rpc = "none" /\ idx <= Len(CurrentSet)
    /\ SkipsRenewal(CurrentSet[idx].amount, fundsRemaining)
    /\ idx' = idx + 1
    /\ handled' = handled \cup {CurrentSet[idx].id}
    /\ UNCHANGED <<contractorVars, maintenanceLock, pc, rpc, renewSet,
                   refreshSet, fundsRemaining, newID, hosts, neededContracts, ret,
                   startFunds, spent, events, blacklisted, overwritten>>
    /\ UNCHANGED <<concVars, pureVars, stopVars>>

\* managedRenewContract returns (fundsSpent, err): its deferred function unmarks
\* the contract, and the loop deducts fundsSpent from fundsRemaining.
ReturnFromRenewStillMarked(id, fundsSpent, err, ev) ==
    /\ renewing' = renewing
    /\ rpc' = "returned"
    /\ ret' = Returned(fundsSpent, err)
    /\ fundsRemaining' = fundsRemaining - fundsSpent
    /\ spent' = spent + fundsSpent
    /\ events' = ev
    /\ UNCHANGED <<maintenanceLock, pc, idx, renewSet, refreshSet, newID,
                   hosts, neededContracts, startFunds, handled>>

ReturnFromRenew(id, fundsSpent, err, ev) ==
    /\ renewing' = renewing \ {id}
    /\ rpc' = "returned"
    /\ ret' = Returned(fundsSpent, err)
    /\ fundsRemaining' = fundsRemaining - fundsSpent
    /\ spent' = spent + fundsSpent
    /\ events' = ev
    /\ UNCHANGED <<maintenanceLock, pc, idx, renewSet, refreshSet, newID,
                   hosts, neededContracts, startFunds, handled>>

\* "Return here if an interrupt or kill signal has been sent": the loop polls
\* the stop and the interrupt signal and goes on to the next item.
AfterRenewContract ==
    /\ InLoop /\ rpc = "returned"
    /\ \E signal \in BOOLEAN :
          IF signal
          THEN ExitPass
          ELSE /\ rpc' = "none"
               /\ idx' = idx + 1
               /\ newID' = 0
               /\ ret' = NoReturn
               /\ events' = <<>>
               /\ UNCHANGED <<maintenanceLock, pc, renewSet, refreshSet,
                              fundsRemaining, hosts, neededContracts, startFunds,
                              spent, handled>>
    /\ UNCHANGED <<contractorVars, blacklisted, overwritten>>
    /\ UNCHANGED <<concVars, pureVars, stopVars>>

\* the contract is marked as being renewed (its editors, downloaders and
\* sessions are invalidated before the contract is acquired)
managedRenewContractMark ==
    /\ InLoop /\ rpc = "none" /\ idx <= Len(CurrentSet)
    /\ ~SkipsRenewal(CurrentSet[idx].amount, fundsRemaining)
    /\ renewing' = renewing \cup {CurrentSet[idx].id}
    /\ rpc' = "acquire"
    /\ handled' = handled \cup {CurrentSet[idx].id}
    /\ UNCHANGED <<contracts, oldContracts, renewedFrom, renewedTo, numFailedRenews,
                   pubKeysToContractID, blockHeight, allowance, nextID, maintenanceLock,
                   pc, idx, renewSet, refreshSet, fundsRemaining, newID,
                   hosts, neededContracts, ret, startFunds, spent, events, blacklisted, overwritten>>
    /\ UNCHANGED <<concVars, pureVars, stopVars>>

\* the contract is acquired and its utility checked again
managedRenewContractAcquire ==
    /\ InLoop /\ rpc = "acquire"
    /\ LET id == CurrentSet[idx].id
       IN  IF id \notin DOMAIN contracts
           THEN ReturnFromRenew(id, 0, TRUE, events) /\ UNCHANGED acquired
           ELSE IF ~contracts[id].Utility.GoodForRenew
           THEN /\ ReturnFromRenew(id, 0, TRUE, events)
                /\ acquired' = ReturnContract(Acquire(acquired, id), id)
           ELSE /\ rpc' = "negotiate"
                /\ acquired' = Acquire(acquired, id)
                /\ UNCHANGED <<renewing, maintenanceLock, pc, idx,
                               renewSet, refreshSet, fundsRemaining, newID, hosts,
                               neededContracts, ret, historyVars>>
    /\ UNCHANGED <<contracts, oldContracts, renewedFrom, renewedTo, numFailedRenews,
                   pubKeysToContractID, blockHeight, allowance, nextID, blacklisted, overwritten>>
    /\ UNCHANGED <<concVars, pureVars, notAcquired>>

\* the end height of a contract formed or renewed now: c.contractEndHeight()
contractEndHeight(alw) == InitHeight + alw.Period + alw.RenewWindow

\* the utility the contract set gives a contract that negotiation returned,
\* before the contractor updates it
FreshUtilities == {Utility(FALSE, FALSE, FALSE)}

NewContract(h, funding, u) ==
    [HostPublicKey |-> h, StartHeight |-> blockHeight,
     EndHeight |-> contractEndHeight(allowance),
     RenterFunds |-> funding, TotalCost |-> funding, Utility |-> u]

\* a contract given up on at any height
HasToBeReplacedAnywhere(counters, id, height, alw, endHeight) ==
    id \in DOMAIN counters /\ counters[id] >= consecutiveRenewalsBeforeReplacement

\* "Check if contract has to be replaced"
HasToBeReplaced(counters, id, height, alw, endHeight) ==
    LET failedBefore == id \in DOMAIN counters
        numRenews == IF failedBefore THEN counters[id] ELSE 0
        secondHalfOfWindow == height + (alw.RenewWindow \div 2) >= endHeight
        replace == numRenews >= consecutiveRenewalsBeforeReplacement
    IN  failedBefore /\ secondHalfOfWindow /\ replace

\* every failed renewal tallied, whoever is at fault
TallyEveryFailedRenew(counters, id, hostsFault) ==
    Put(counters, id, (IF id \in DOMAIN counters THEN counters[id] ELSE 0) + 1)

\* the failed-renew counters after a failed renewal
TallyFailedRenew(counters, id, hostsFault) ==
    IF hostsFault
    THEN Put(counters, id, (IF id \in DOMAIN counters THEN counters[id] ELSE 0) + 1)
    ELSE counters

\* modules.IsHostsFault(errRenew): what the error of a failed renewal was
\* classified as
Classified(ev, hostsFault) == IF hostsFault THEN Append(ev, "hostsfault") ELSE ev

\* managedRenew: the negotiation with the host, and what follows its failure
managedRenewContractNegotiate ==
    /\ InLoop /\ rpc = "negotiate"
    /\ LET id == CurrentSet[idx].id
           amount == CurrentSet[idx].amount
       IN  \/ \* the renewal failed; `updated` is whether oldContract.UpdateUtility
              \* succeeds when the contract is given up on
              \E hostsFault \in BOOLEAN, updated \in BOOLEAN :
                 LET counters == TallyFailedRenew(numFailedRenews, id, hostsFault)
                     replaced == HasToBeReplaced(counters, id, blockHeight, allowance,
                                                 contracts[id].EndHeight)
                 IN  /\ hostsFault => counters[id] <= MaxFailures
                     /\ replaced \/ updated
                     /\ numFailedRenews' = counters
                     /\ contracts' =
                           IF replaced /\ updated
                           THEN [contracts EXCEPT ![id].Utility = CanceledUtility]
                           ELSE contracts
                     /\ blacklisted' =
                           IF replaced /\ hostsFault
                           THEN blacklisted \cup {id} ELSE blacklisted
                     /\ UNCHANGED <<oldContracts, renewedFrom, renewedTo,
                                    pubKeysToContractID, blockHeight, allowance, nextID,
                                    overwritten>>
                     /\ acquired' = ReturnContract(acquired, id)
                     /\ ReturnFromRenew(id, 0, TRUE,
                                        IF replaced /\ updated
                                        THEN Append(Classified(Negotiated(events),
                                                               hostsFault), "blacklist")
                                        ELSE Classified(Negotiated(events), hostsFault))
           \/ \* the renewal succeeded: the contract set holds the new contract
              \E u \in FreshUtilities :
                 /\ nextID <= MaxID
                 /\ contracts' = Put(contracts, nextID,
                                     NewContract(contracts[id].HostPublicKey, amount, u))
                 /\ pubKeysToContractID' =
                       Put(pubKeysToContractID, StringKey(contracts[id].HostPublicKey),
                           nextID)
                 /\ newID' = nextID
                 /\ nextID' = nextID + 1
                 /\ rpc' = "commit"
                 /\ events' = Negotiated(events)
                 /\ UNCHANGED acquired
                 /\ UNCHANGED <<oldContracts, renewedFrom, renewedTo, numFailedRenews,
                                renewing, blockHeight, allowance, maintenanceLock, pc,
                                idx, renewSet, refreshSet, fundsRemaining,
                                hosts, neededContracts, ret, startFunds, spent, handled,
                                blacklisted, overwritten>>
    /\ UNCHANGED <<concVars, pureVars, notAcquired>>

\* "Link Contracts" and "Store the contract in the record of historic contracts"
LinkRenewalUnstored(st, new, old, md) ==
    [st EXCEPT !.renewedFrom = Put(st.renewedFrom, new, old),
               !.renewedTo = Put(st.renewedTo, old, new)]

LinkRenewal(st, new, old, md) ==
    [st EXCEPT !.renewedFrom = Put(st.renewedFrom, new, old),
               !.renewedTo = Put(st.renewedTo, old, new),
               !.oldContracts = Put(st.oldContracts, old, md),
               !.overwritten = st.overwritten
                                  \cup Overwrites("renewedFrom", st.renewedFrom, new, old)
                                  \cup Overwrites("renewedTo", st.renewedTo, old, new)]

\* the utilities of the new and the old contract are updated, and the contractor
\* is relinked to the new contract and saved
managedRenewContractCommit ==
    /\ InLoop /\ rpc = "commit"
    /\ LET id == CurrentSet[idx].id
           amount == CurrentSet[idx].amount
           withNew == [contracts EXCEPT ![newID].Utility = Utility(TRUE, TRUE, FALSE)]
           withOld == [withNew EXCEPT ![id].Utility = CanceledUtility]
           linked == LinkRenewal([renewedFrom |-> renewedFrom, renewedTo |-> renewedTo,
                                  oldContracts |-> oldContracts,
                                  overwritten |-> overwritten], newID, id, withOld[id])
       IN  \/ \* managedUpdateContractUtility(newContract.ID, ...) failed
              /\ UNCHANGED <<contracts, oldContracts, renewedFrom, renewedTo, overwritten>>
              /\ acquired' = ReturnContract(managedUpdateContractUtility(acquired, newID), id)
              /\ ReturnFromRenew(id, amount, FALSE, events)
           \/ \* oldContract.UpdateUtility failed
              /\ contracts' = withNew
              /\ UNCHANGED <<oldContracts, renewedFrom, renewedTo, overwritten>>
              /\ acquired' = ReturnContract(managedUpdateContractUtility(acquired, newID), id)
              /\ ReturnFromRenew(id, amount, FALSE, events)
           \/ \* the InterruptContractSaveToDiskAfterDeletion disrupt
              /\ contracts' = withOld
              /\ UNCHANGED <<oldContracts, renewedFrom, renewedTo, overwritten>>
              /\ acquired' = ReturnContract(managedUpdateContractUtility(acquired, newID), id)
              /\ ReturnFromRenew(id, amount, TRUE, events)
           \/ \* the contracts are linked, the old one is stored, the contractor saved
              /\ contracts' = withOld
              /\ renewedFrom' = linked.renewedFrom
              /\ renewedTo' = linked.renewedTo
              /\ oldContracts' = linked.oldContracts
              /\ overwritten' = linked.overwritten
              /\ events' = SaveContractor(Append(events, "relink"))
              /\ rpc' = "delete"
              /\ acquired' = managedUpdateContractUtility(acquired, newID)
              /\ UNCHANGED <<renewing, maintenanceLock, pc, idx, renewSet,
                             refreshSet, fundsRemaining, newID, hosts, neededContracts,
                             ret, startFunds, spent, handled>>
    /\ UNCHANGED <<numFailedRenews, pubKeysToContractID, blockHeight, allowance, nextID,
                   blacklisted>>
    /\ UNCHANGED <<concVars, pureVars, notAcquired>>

\* "Delete the old contract."
managedRenewContractDelete ==
    /\ InLoop /\ rpc = "delete"
    /\ LET id == CurrentSet[idx].id
       IN  /\ contracts' = Del(contracts, id)
           /\ acquired' = DeleteContract(acquired, id)
           /\ ReturnFromRenew(id, CurrentSet[idx].amount, FALSE, events)
    /\ UNCHANGED <<oldContracts, renewedFrom, renewedTo, numFailedRenews,
                   pubKeysToContractID, blockHeight, allowance, nextID, blacklisted, overwritten>>
    /\ UNCHANGED <<concVars, pureVars, notAcquired>>

\* the renewSet loop is over: the refreshSet loop begins
RenewLoopDone ==
    /\ pc = "renew" /\ rpc = "none" /\ idx > Len(CurrentSet)
    /\ pc' = "refresh"
    /\ idx' = 1
    /\ UNCHANGED <<contractorVars, maintenanceLock, rpc, renewSet,
                   refreshSet, fundsRemaining, newID, hosts, neededContracts, ret,
                   historyVars, blacklisted, overwritten>>
    /\ UNCHANGED <<concVars, pureVars, stopVars>>

(***************************************************************************)
(* threadedContractMaintenance, gap filling.                               *)
(***************************************************************************)
\* "Count the number of contracts which are good for uploading"
UploadContracts(cs) == Cardinality({i \in DOMAIN cs : cs[i].Utility.GoodForUpload})

InitialContractFunds(alw) == (alw.Funds \div alw.Hosts) \div 3

\* no host kept from the host directory's selection
BlacklistOfNone(cs, recoverable) == {}

\* "Assemble two exclusion lists": the hosts that contracts are held with, and
\* "the hosts we have recoverable contracts with"
Blacklist(cs, recoverable) ==
    {cs[i].HostPublicKey : i \in DOMAIN cs} \cup recoverable

\* The refreshSet loop is over. The contracts that are needed are counted and
\* the host directory is asked for hosts that no contract is held with.
CountNeededContracts ==
    /\ pc = "refresh" /\ rpc = "none" /\ idx > Len(CurrentSet)
    /\ LET needed == allowance.Hosts - UploadContracts(contracts)
           blacklist == Blacklist(contracts, recoverableContracts)
       IN  IF needed <= 0
           THEN ExitPass
           ELSE \E err \in BOOLEAN :
                \E candidates \in SUBSET (Hosts \ blacklist) :
                \E hs \in Orders(candidates) :
                   IF err
                   THEN ExitPass
                   ELSE /\ hosts' = hs
                        /\ neededContracts' = needed
                        /\ pc' = "form"
                        /\ idx' = 1
                        /\ UNCHANGED <<maintenanceLock, rpc, renewSet, refreshSet,
                                       fundsRemaining, newID, ret, historyVars>>
    /\ UNCHANGED <<contractorVars, blacklisted, overwritten>>
    /\ UNCHANGED <<concVars, pureVars, stopVars>>

\* the funds of a negotiated contract left out of the budget
FundsAfterFormationUncharged(funds, fundsSpent) == funds

\* "fundsRemaining = fundsRemaining.Sub(fundsSpent)" of the formation loop
FundsAfterFormation(funds, fundsSpent) == funds - fundsSpent

\* one iteration of "Form contracts with the hosts one at a time": managedNewContract,
\* the utility of the new contract, the save
FormContract ==
    /\ pc = "form" /\ rpc = "none"
    /\ LET funding == InitialContractFunds(allowance)
       IN  IF idx > Len(hosts) \/ fundsRemaining < funding
           THEN ExitPass /\ UNCHANGED <<contractorVars, acquired>>
           ELSE LET h == hosts[idx]
                    formed(u) == Put(contracts, nextID, NewContract(h, funding, u))
                IN  \/ \* negotiation failed
                       /\ idx' = idx + 1
                       /\ events' = Negotiated(events)
                       /\ UNCHANGED acquired
                       /\ UNCHANGED <<contractorVars, maintenanceLock, pc, rpc,
                                      renewSet, refreshSet, fundsRemaining, newID,
                                      hosts, neededContracts, ret, startFunds, spent,
                                      handled>>
                    \/ \* a contract was formed with a host there is a contract with
                       \E u \in FreshUtilities :
                          /\ nextID <= MaxID
                          /\ StringKey(h) \in DOMAIN pubKeysToContractID
                          /\ UNCHANGED acquired
                          /\ contracts' = formed(u)
                          /\ nextID' = nextID + 1
                          /\ idx' = idx + 1
                          /\ events' = Negotiated(events)
                          /\ UNCHANGED <<oldContracts, renewedFrom, renewedTo,
                                         numFailedRenews, pubKeysToContractID, renewing,
                                         blockHeight, allowance, maintenanceLock, pc, rpc,
                                         renewSet, refreshSet, fundsRemaining, newID,
                                         hosts, neededContracts, ret, startFunds, spent,
                                         handled>>
                    \/ \* a contract was formed
                       \E u \in FreshUtilities, updated \in BOOLEAN :
                          /\ nextID <= MaxID
                          /\ StringKey(h) \notin DOMAIN pubKeysToContractID
                          /\ acquired' = managedUpdateContractUtility(acquired, nextID)
                          /\ pubKeysToContractID' =
                                Put(pubKeysToContractID, StringKey(h), nextID)
                          /\ nextID' = nextID + 1
                          /\ UNCHANGED <<oldContracts, renewedFrom, renewedTo,
                                         numFailedRenews, renewing, blockHeight, allowance>>
                          /\ IF updated
                             THEN /\ contracts' = [formed(u) EXCEPT ![nextID].Utility =
                                                      Utility(TRUE, TRUE, FALSE)]
                                  /\ rpc' = "returned"
                                  /\ newID' = nextID
                                  /\ ret' = Returned(funding, FALSE)
                                  /\ fundsRemaining' = FundsAfterFormation(fundsRemaining, funding)
                                  /\ events' = SaveContractor(Negotiated(events)
                                                            \o <<"formed", "utility">>)
                                  /\ UNCHANGED <<maintenanceLock, pc, idx, renewSet,
                                                 refreshSet, hosts, neededContracts,
                                                 startFunds, spent, handled>>
                             ELSE /\ contracts' = formed(u)
                                  /\ rpc' = "failed"
                                  /\ events' = Append(Negotiated(events), "formed")
                                  /\ fundsRemaining' = FundsAfterFormation(fundsRemaining, funding)
                                  /\ UNCHANGED <<maintenanceLock, pc, idx, renewSet,
                                                 refreshSet, newID,
                                                 hosts, neededContracts, ret,
                                                 startFunds, spent, handled>>
    /\ UNCHANGED <<blacklisted, overwritten>>
    /\ UNCHANGED <<concVars, pureVars, notAcquired>>

\* "Quit the loop if we've replaced all needed contracts", and the poll of the
\* stop and the interrupt signal before the next host
AfterFormation ==
    /\ pc = "form" /\ rpc = "returned"
    /\ \E signal \in BOOLEAN :
          IF neededContracts - 1 <= 0 \/ signal
          THEN ExitPass
          ELSE /\ neededContracts' = neededContracts - 1
               /\ idx' = idx + 1
               /\ rpc' = "none"
               /\ newID' = 0
               /\ ret' = NoReturn
               /\ events' = <<>>
               /\ UNCHANGED <<maintenanceLock, pc, renewSet, refreshSet,
                              fundsRemaining, hosts, startFunds, spent, handled>>
    /\ UNCHANGED <<contractorVars, blacklisted, overwritten>>
    /\ UNCHANGED <<concVars, pureVars, stopVars>>

\* "Failed to update the contract utilities": the pass returns, the contractor
\* is not saved
FormationNotUpdated ==
    /\ pc = "form" /\ rpc = "failed"
    /\ ExitPass
    /\ UNCHANGED <<contractorVars, blacklisted, overwritten>>
    /\ UNCHANGED <<concVars, pureVars, stopVars>>

(***************************************************************************)
(* The maintenance engine: one pass after the other.                       *)
(***************************************************************************)
Next ==
    \/ StartPass
    \/ NewBlock
    \/ managedCheckForDuplicates
    \/ managedPrunePubkeyMap
    \/ managedPrunedRedundantAddressRange
    \/ managedMarkContractsUtility
    \/ UnableToMark
    \/ PlanRenewals
    \/ SkipRenewal
    \/ managedRenewContractMark
    \/ managedRenewContractAcquire
    \/ managedRenewContractNegotiate
    \/ managedRenewContractCommit
    \/ managedRenewContractDelete
    \/ AfterRenewContract
    \/ RenewLoopDone
    \/ CountNeededContracts
    \/ FormContract
    \/ AfterFormation
    \/ FormationNotUpdated

Spec == Init /\ [][Next]_vars

(***************************************************************************)
(* Gap filling taken on its own: a pass that found nothing to renew and    *)
(* nothing to refresh is at the end of its refreshSet loop.                *)
(***************************************************************************)
\* number of contracts that gap filling may form in one pass
MaxFormations == 2
\* largest fundsRemaining that gap filling begins with
MaxGapFunds == 4

\* the id of the first contract that gap filling forms
FirstFormedID == MaxID - MaxFormations + 1

\* the allowances of a renter that wants one host or more
GapAllowances ==
    {[a EXCEPT !.Hosts = n] : a \in Allowances, n \in 1..AllowanceHosts}

\* the contract sets gap filling finds: no contract, or a contract with host 1
\* that is or is not good for upload
GapContractSets ==
    {EmptyMap}
    \cup {[i \in {1} |-> [InitContract(1, 0) EXCEPT !.Utility = Utility(gfu, TRUE, FALSE)]]
             : gfu \in BOOLEAN}

\* the pass holds the maintenance lock; its work lists are empty and its funds
\* are the funds budgeted execution began with
InitGapFilling ==
    /\ contracts \in GapContractSets
    /\ allowance \in GapAllowances
    /\ recoverableContracts \in SUBSET Hosts
    /\ allowanceUsed = EmptyMap
    /\ wallet = IdleWallet
    /\ fundsRemaining \in 0..MaxGapFunds
    /\ startFunds = fundsRemaining
    /\ oldContracts = EmptyMap
    /\ renewedFrom = EmptyMap
    /\ renewedTo = EmptyMap
    /\ numFailedRenews = EmptyMap
    /\ pubKeysToContractID = PubKeyIndex(contracts)
    /\ renewing = {}
    /\ blockHeight = InitHeight
    /\ nextID = FirstFormedID
    /\ maintenanceLock = 1
    /\ pc = "refresh"
    /\ rpc = "none"
    /\ idx = 1
    /\ renewSet = <<>>
    /\ refreshSet = <<>>
    /\ newID = 0
    /\ hosts = <<>>
    /\ neededContracts = 0
    /\ ret = NoReturn
    /\ spent = 0
    /\ handled = {}
    /\ blacklisted = {}
    /\ overwritten = {}
    /\ events = <<>>
    /\ release = "standard"
    /\ InitConc
    /\ InitPure
    /\ stopChan = FALSE
    /\ session = "none"
    /\ sessions = [k \in {"editor", "downloader", "session"} |-> {}]
    /\ quiesce = [k \in {"editor", "downloader", "session"} |-> FALSE]
    /\ acquired = {}

NextGapFilling ==
    \/ CountNeededContracts
    \/ FormContract
    \/ AfterFormation
    \/ FormationNotUpdated

SpecGapFilling == InitGapFilling /\ [][NextGapFilling]_vars

(***************************************************************************)
(* The allowance a pass decides with.  The pass reads c.allowance where    *)
(* the source reads it, and keeps the copy it takes; the owner of the      *)
(* contractor sets a new allowance when it likes.  allowanceUsed records,  *)
(* for each decision, the allowance it was made with.                      *)
(***************************************************************************)
\* the allowances the owner sets
SetAllowances == Allowances \cup GapAllowances

\* the decision d is made with the allowance a
Uses(used, d, a) == Put(used, d, a)

\* a decision made with the copy of the allowance that the pass took
UsesCopy(used, d, live) == Put(used, d, used["copy"])

\* a decision made with c.allowance as it is now
UsesLive(used, d, live) == Put(used, d, live)

\* SetAllowance of the owning process: c.allowance is replaced
SetAllowance ==
    /\ \E a \in SetAllowances : a # allowance /\ allowance' = a
    /\ UNCHANGED <<contracts, oldContracts, renewedFrom, renewedTo, numFailedRenews,
                   pubKeysToContractID, renewing, blockHeight, nextID, passVars,
                   historyVars, blacklisted, overwritten>>
    /\ UNCHANGED <<concVars, pureVars, stopVars>>

\* what a step of the pass leaves alone but for pc and allowanceUsed
notOfAllowanceReads ==
    <<contractorVars, maintenanceLock, rpc, idx, renewSet, refreshSet, fundsRemaining,
      newID, hosts, neededContracts, ret, historyVars, blacklisted, overwritten,
      concVars, pureVars, stopChan, session, renewVars, recoverableContracts, wallet>>

\* the pass begins: nothing has been decided
BeginDecisions ==
    /\ pc = "idle"
    /\ pc' = "mark"
    /\ allowanceUsed' = EmptyMap
    /\ UNCHANGED notOfAllowanceReads

\* managedMarkContractsUtility: "hostCount := int(c.allowance.Hosts)", and
\* "renewWindow := c.allowance.RenewWindow" for a contract
ClassifierReads ==
    /\ pc = "mark"
    /\ \/ /\ "classification" \notin DOMAIN allowanceUsed
          /\ allowanceUsed' = UsesLive(allowanceUsed, "classification", allowance)
          /\ pc' = pc
       \/ /\ "classification" \in DOMAIN allowanceUsed
          /\ allowanceUsed' = UsesLive(allowanceUsed, "renew window of the classifier",
                                       allowance)
          /\ pc' = "plan"
    /\ UNCHANGED notOfAllowanceReads

\* "wantedHosts := c.allowance.Hosts", "allowance := c.allowance", and the
\* planner, the estimates and fundsRemaining, which use the copy
PlannerReads ==
    /\ pc = "plan"
    /\ LET wanted == UsesLive(allowanceUsed, "wanted hosts", allowance)
           copied == Uses(wanted, "copy", allowance)
       IN  IF allowance.Hosts <= 0
           THEN /\ allowanceUsed' = wanted
                /\ pc' = "idle"
           ELSE /\ allowanceUsed' =
                      UsesCopy(UsesCopy(UsesCopy(copied, "renew window of the planner",
                                                 allowance),
                                        "funding estimates", allowance),
                               "funds remaining", allowance)
                /\ pc' = "refresh"
    /\ UNCHANGED notOfAllowanceReads

\* "neededContracts := int(c.allowance.Hosts) - uploadContracts"
NeededContractsReads ==
    /\ pc = "refresh"
    /\ allowanceUsed' = UsesLive(allowanceUsed, "needed contracts", allowance)
    /\ pc' = "form"
    /\ UNCHANGED notOfAllowanceReads

\* "initialContractFunds := c.allowance.Funds.Div64(c.allowance.Hosts).Div64(3)"
InitialContractFundsReads ==
    /\ pc = "form"
    /\ allowanceUsed' = UsesLive(allowanceUsed, "initial contract funds", allowance)
    /\ pc' = "idle"
    /\ UNCHANGED notOfAllowanceReads

NextAllowance ==
    \/ SetAllowance
    \/ BeginDecisions
    \/ ClassifierReads
    \/ PlannerReads
    \/ NeededContractsReads
    \/ InitialContractFundsReads

SpecAllowance == Init /\ [][NextAllowance]_vars

(***************************************************************************)
(* The NFT calls of a wallet: a wallet that is synced or not, unlocked or  *)
(* not, with some outputs, is called again and again.                      *)
(***************************************************************************)
Wallets ==
    {[IdleWallet EXCEPT !.synced = sy, !.unlocked = un, !.outputs = os] :
        sy \in BOOLEAN, un \in BOOLEAN, os \in SUBSET SiacoinOutputs}

\* the call has returned r
Called(w, name, r, found) ==
    [w EXCEPT !.call = name, !.found = found, !.txns = r.txns, !.err = r.err,
              !.builder = r.builder, !.submitted = r.submitted]

notOfWallet ==
    <<contractorVars, passVars, historyVars, blacklisted, overwritten, concVars,
      pureVars, stopChan, session, renewVars, recoverableContracts, allowanceUsed>>

MintNFT ==
    /\ \E in \in NFTInputs :
          wallet' = Called(wallet, "MintNFT", MintNFTReturns(wallet, in), FALSE)
    /\ UNCHANGED notOfWallet

TransferNFT ==
    /\ \E in \in NFTInputs :
          wallet' = Called(wallet, "TransferNFT", TransferNFTReturns(wallet, in),
                           FoundOutput(wallet, in.goalOutput))
    /\ UNCHANGED notOfWallet

InitNFT ==
    /\ contracts = EmptyMap
    /\ allowance = [Funds |-> AllowanceFunds, Hosts |-> AllowanceHosts,
                    Period |-> AllowancePeriod, RenewWindow |-> AllowanceRenewWindow]
    /\ InitEngine
    /\ release = "standard"
    /\ InitConc
    /\ InitPure
    /\ stopChan = FALSE
    /\ session = "none"
    /\ sessions = [k \in {"editor", "downloader", "session"} |-> {}]
    /\ quiesce = [k \in {"editor", "downloader", "session"} |-> FALSE]
    /\ acquired = {}
    /\ recoverableContracts = {}
    /\ allowanceUsed = EmptyMap
    /\ wallet \in Wallets

NextNFT == MintNFT \/ TransferNFT

SpecNFT == InitNFT /\ [][NextNFT]_vars

(***************************************************************************)
(* The maintenance lock under concurrency: invocations of                  *)
(* threadedContractMaintenance next to one another, and callers of         *)
(* managedInterruptContractMaintenance.  What a pass does past the gate is *)
(* abstracted to its work items and its polls of the interrupt channel.    *)
(***************************************************************************)
\* c.maintenanceLock.TryLock()
TryLockAlways(holder) == TRUE

TryLockSucceeds(holder) == holder = 0

\* whether the goroutine of a caller has closed gotLock
GotLockClosedEarly(o) == o \in {"lock", "locked", "closed", "done"}

GotLockClosed(o) == o \in {"closed", "done"}

\* the deferred c.maintenanceLock.Unlock() of pass t
Unlock(t) ==
    /\ maintenanceLock' = 0
    /\ pending' = [i \in Callers |-> pending[i] \ {t}]

\* threadedContractMaintenance is invoked: c.tg.Add()
BeginMaintenance(t) ==
    /\ tpc[t] = "idle"
    /\ \E stopped \in BOOLEAN :
          tpc' = [tpc EXCEPT ![t] = IF stopped THEN "idle" ELSE "gate"]
    /\ UNCHANGED <<engineVars, pureVars, stopVars, maintenanceLock, release, ipc, opc, heldAtCall, pending>>

\* build.Release == "testing": c.maintenanceLock.Lock() blocks until the lock is free
GateLock(t) ==
    /\ tpc[t] = "gate"
    /\ release = "testing"
    /\ maintenanceLock = 0
    /\ maintenanceLock' = t
    /\ tpc' = [tpc EXCEPT ![t] = "work"]
    /\ UNCHANGED <<engineVars, pureVars, stopVars, release, ipc, opc, heldAtCall, pending>>

\* otherwise: "else if !c.maintenanceLock.TryLock() { return }"
GateTryLock(t) ==
    /\ tpc[t] = "gate"
    /\ release # "testing"
    /\ IF TryLockSucceeds(maintenanceLock)
       THEN /\ maintenanceLock' = t
            /\ tpc' = [tpc EXCEPT ![t] = "work"]
       ELSE /\ tpc' = [tpc EXCEPT ![t] = "refused"]
            /\ UNCHANGED maintenanceLock
    /\ UNCHANGED <<engineVars, pureVars, stopVars, release, ipc, opc, heldAtCall, pending>>

\* "maintenance lock could not be obtained": the invocation has returned
Refused(t) ==
    /\ tpc[t] = "refused"
    /\ tpc' = [tpc EXCEPT ![t] = "idle"]
    /\ UNCHANGED <<engineVars, pureVars, stopVars, maintenanceLock, release, ipc, opc, heldAtCall, pending>>

\* a work item of the pass, after which the signals are polled
WorkItem(t) ==
    /\ tpc[t] = "work"
    /\ tpc' = [tpc EXCEPT ![t] = "poll"]
    /\ UNCHANGED <<engineVars, pureVars, stopVars, maintenanceLock, release, ipc, opc, heldAtCall, pending>>

\* the pass returns: its work is done, an error ended it or the renter was stopped
ReturnFromMaintenance(t) ==
    /\ tpc[t] \in {"work", "poll"}
    /\ tpc' = [tpc EXCEPT ![t] = "idle"]
    /\ Unlock(t)
    /\ UNCHANGED <<engineVars, pureVars, stopVars, release, ipc, opc, heldAtCall>>

\* the select's default: no signal is there, the pass goes on
PollDefault(t) ==
    /\ tpc[t] = "poll"
    /\ \A i \in Callers : ipc[i] # "select"
    /\ tpc' = [tpc EXCEPT ![t] = "work"]
    /\ UNCHANGED <<engineVars, pureVars, stopVars, maintenanceLock, release, ipc, opc, heldAtCall, pending>>

\* a send on c.interruptMaintenance that no pass ever receives
InterruptLost(i, t) == FALSE /\ UNCHANGED vars

\* "case c.interruptMaintenance <- struct{}{}" of caller i meets
\* "case <-c.interruptMaintenance" of pass t: the pass returns
Interrupt(i, t) ==
    /\ ipc[i] = "select"
    /\ tpc[t] = "poll"
    /\ tpc' = [tpc EXCEPT ![t] = "idle"]
    /\ Unlock(t)
    /\ UNCHANGED <<engineVars, pureVars, stopVars, release, ipc, opc, heldAtCall>>

\* managedInterruptContractMaintenance is called: the goroutine is spun up
BeginInterrupt(i) ==
    /\ ipc[i] = "idle"
    /\ opc[i] \in {"none", "done"}
    /\ ipc' = [ipc EXCEPT ![i] = "select"]
    /\ opc' = [opc EXCEPT ![i] = "lock"]
    /\ heldAtCall' = [heldAtCall EXCEPT ![i] = maintenanceLock]
    /\ pending' = [pending EXCEPT ![i] = {maintenanceLock} \cap Passes]
    /\ UNCHANGED <<engineVars, pureVars, stopVars, maintenanceLock, release, tpc>>

\* the goroutine: c.maintenanceLock.Lock()
ObserverLock(i) ==
    /\ opc[i] = "lock"
    /\ maintenanceLock = 0
    /\ maintenanceLock' = Observer(i)
    /\ opc' = [opc EXCEPT ![i] = "locked"]
    /\ UNCHANGED <<engineVars, pureVars, stopVars, release, tpc, ipc, heldAtCall, pending>>

\* the goroutine: close(gotLock)
ObserverClose(i) ==
    /\ opc[i] = "locked"
    /\ opc' = [opc EXCEPT ![i] = "closed"]
    /\ UNCHANGED <<engineVars, pureVars, stopVars, maintenanceLock, release, tpc, ipc, heldAtCall, pending>>

\* the goroutine: c.maintenanceLock.Unlock()
ObserverUnlock(i) ==
    /\ opc[i] = "closed"
    /\ maintenanceLock' = 0
    /\ opc' = [opc EXCEPT ![i] = "done"]
    /\ UNCHANGED <<engineVars, pureVars, stopVars, release, tpc, ipc, heldAtCall, pending>>

\* "case <-gotLock: return"
ReturnFromInterrupt(i) ==
    /\ ipc[i] = "select"
    /\ GotLockClosed(opc[i])
    /\ ipc' = [ipc EXCEPT ![i] = "returned"]
    /\ UNCHANGED <<engineVars, pureVars, stopVars, maintenanceLock, release, tpc, opc, heldAtCall, pending>>

\* the caller goes on, and may call again
AfterInterrupt(i) ==
    /\ ipc[i] = "returned"
    /\ ipc' = [ipc EXCEPT ![i] = "idle"]
    /\ heldAtCall' = [heldAtCall EXCEPT ![i] = 0]
    /\ pending' = [pending EXCEPT ![i] = {}]
    /\ UNCHANGED <<engineVars, pureVars, stopVars, maintenanceLock, release, tpc, opc>>

InitMaintenanceLock ==
    /\ contracts = [i \in 1..NumHosts |-> InitContract(i, 0)]
    /\ allowance = [Funds |-> AllowanceFunds, Hosts |-> AllowanceHosts,
                    Period |-> AllowancePeriod, RenewWindow |-> AllowanceRenewWindow]
    /\ InitEngine
    /\ release \in {"testing", "standard"}
    /\ InitConc
    /\ InitPure
    /\ InitStopChan

NextMaintenanceLock ==
    \/ \E t \in Passes :
          \/ BeginMaintenance(t)
          \/ GateLock(t)
          \/ GateTryLock(t)
          \/ Refused(t)
          \/ WorkItem(t)
          \/ ReturnFromMaintenance(t)
          \/ PollDefault(t)
    \/ \E i \in Callers :
          \/ BeginInterrupt(i)
          \/ ObserverLock(i)
          \/ ObserverClose(i)
          \/ ObserverUnlock(i)
          \/ ReturnFromInterrupt(i)
          \/ AfterInterrupt(i)
    \/ \E i \in Callers, t \in Passes : Interrupt(i, t)

SpecMaintenanceLock == InitMaintenanceLock /\ [][NextMaintenanceLock]_vars

(***************************************************************************)
(* The scheduling of the invocations and of the callers of                 *)
(* managedInterruptContractMaintenance.                                    *)
(***************************************************************************)
\* an invocation that can take a step takes one: its work item (a negotiation)
\* ends, and its select takes a case that is ready
PassRuns(t) ==
    \/ GateLock(t)
    \/ GateTryLock(t)
    \/ Refused(t)
    \/ WorkItem(t)
    \/ PollDefault(t)
    \/ \E i \in Callers : Interrupt(i, t)

\* a goroutine that waits in c.maintenanceLock.Lock() is handed the lock at
\* some release of it
LockIsStarvationFree == \A i \in Callers : SF_vars(ObserverLock(i))

\* the goroutine of a caller closes gotLock and unlocks, and the select of the
\* caller takes "case <-gotLock" once it is ready
CallerRuns(i) ==
    \/ ObserverClose(i)
    \/ ObserverUnlock(i)
    \/ ReturnFromInterrupt(i)

SpecInterrupt ==
    /\ InitMaintenanceLock
    /\ [][NextMaintenanceLock]_vars
    /\ \A t \in Passes : WF_vars(PassRuns(t))
    /\ \A i \in Callers : WF_vars(CallerRuns(i))
    /\ LockIsStarvationFree

(***************************************************************************)
(* The waits of a pass and the stop signal of the renter: c.tg.Add(), the  *)
(* gate, the invalidation of the sessions of the contract that is renewed, *)
(* the negotiation, and the poll of c.tg.StopChan().                       *)
(***************************************************************************)
\* "err := c.tg.Add()": an invocation gets past it while the renter runs
AddToThreadGroup(t) ==
    /\ tpc[t] = "idle"
    /\ ~stopChan
    /\ tpc' = [tpc EXCEPT ![t] = "gate"]
    /\ UNCHANGED <<engineVars, pureVars, stopVars, maintenanceLock, release, ipc, opc,
                   heldAtCall, pending>>

\* managedRenewContract looks up the editor, downloader and session of the
\* contract and calls invalidate() on those there are
InvalidateSessions(t) ==
    /\ tpc[t] = "work"
    /\ \E open \in BOOLEAN :
          /\ session' = IF open THEN "open" ELSE "none"
          /\ tpc' = [tpc EXCEPT ![t] = IF open THEN "invalidate" ELSE "negotiate"]
    /\ UNCHANGED <<engineVars, pureVars, stopChan, renewVars, recoverableContracts, allowanceUsed, wallet, maintenanceLock, release, ipc, opc,
                   heldAtCall, pending>>

\* the owner of the session acknowledges the invalidation
SessionAcknowledges ==
    /\ session = "open"
    /\ session' = "invalid"
    /\ UNCHANGED <<engineVars, pureVars, stopChan, renewVars, recoverableContracts, allowanceUsed, wallet, maintenanceLock, release, tpc, ipc,
                   opc, heldAtCall, pending>>

\* invalidate() returns once the owner has acknowledged
SessionsInvalidated(t) ==
    /\ tpc[t] = "invalidate"
    /\ session = "invalid"
    /\ session' = "none"
    /\ tpc' = [tpc EXCEPT ![t] = "negotiate"]
    /\ UNCHANGED <<engineVars, pureVars, stopChan, renewVars, recoverableContracts, allowanceUsed, wallet, maintenanceLock, release, ipc, opc,
                   heldAtCall, pending>>

\* the negotiation with the host ends: it is handed c.tg.StopChan() and gives
\* up when the renter is stopped
NegotiateRenewal(t) ==
    /\ tpc[t] = "negotiate"
    /\ tpc' = [tpc EXCEPT ![t] = "poll"]
    /\ UNCHANGED <<engineVars, pureVars, stopVars, maintenanceLock, release, ipc, opc,
                   heldAtCall, pending>>

\* "case <-c.tg.StopChan(): return", and the default: the next work item, or
\* the end of the pass
PollStopChan(t) ==
    /\ tpc[t] = "poll"
    /\ \E more \in BOOLEAN :
          IF ~stopChan /\ more
          THEN /\ tpc' = [tpc EXCEPT ![t] = "work"]
               /\ UNCHANGED <<maintenanceLock, pending>>
          ELSE /\ tpc' = [tpc EXCEPT ![t] = "idle"]
               /\ Unlock(t)
    /\ UNCHANGED <<engineVars, pureVars, stopVars, release, ipc, opc, heldAtCall>>

\* the renter is stopped: the stop channel is closed
StopRenter ==
    /\ ~stopChan
    /\ stopChan' = TRUE
    /\ UNCHANGED <<engineVars, pureVars, session, renewVars, recoverableContracts, allowanceUsed, wallet, maintenanceLock, release, tpc, ipc,
                   opc, heldAtCall, pending>>

\* what the scheduler runs when it can: the steps of the invocations
PassStep(t) ==
    \/ GateLock(t)
    \/ GateTryLock(t)
    \/ Refused(t)
    \/ InvalidateSessions(t)
    \/ SessionsInvalidated(t)
    \/ NegotiateRenewal(t)
    \/ PollStopChan(t)

NextStop ==
    \/ \E t \in Passes :
          \/ AddToThreadGroup(t)
          \/ GateLock(t)
          \/ GateTryLock(t)
          \/ Refused(t)
          \/ InvalidateSessions(t)
          \/ SessionsInvalidated(t)
          \/ NegotiateRenewal(t)
          \/ PollStopChan(t)
    \/ SessionAcknowledges
    \/ StopRenter

\* every invocation goes on running; the owner of a session and the caller of
\* Stop are not bound to do anything
SpecStop ==
    /\ InitMaintenanceLock
    /\ [][NextStop]_vars
    /\ \A t \in Passes : WF_vars(PassStep(t))

(***************************************************************************)
(* managedRenewContract up to its negotiation, taken on its own, next to   *)
(* the subsystems that open and close editors, downloaders and sessions.   *)
(* What the negotiation and the steps after it do to the contractor is in  *)
(* managedRenewContractNegotiate, -Commit and -Delete of the engine; here  *)
(* the negotiation is the span in which the host is talked to.             *)
(***************************************************************************)
\* the maps managedRenewContract looks the id up in, in the order it
\* invalidates what it found
SessionKinds == <<"editor", "downloader", "session">>

\* the ids a renewal is asked for: those of the contracts and one that the
\* contract set does not hold any more
RenewableIDs == 1..(NumHosts + 1)

\* the id of renewInstructions
RenewedID == renewSet[1].id

\* what this part of managedRenewContract leaves alone
notOfRenewContract ==
    <<contracts, oldContracts, renewedFrom, renewedTo, numFailedRenews,
      pubKeysToContractID, blockHeight, allowance, nextID, maintenanceLock, pc, idx,
      refreshSet, fundsRemaining, newID, hosts, neededContracts, startFunds, spent,
      handled, blacklisted, overwritten, concVars, pureVars, stopChan, session,
      recoverableContracts, allowanceUsed, wallet>>

\* a subsystem may open an editor, a downloader or a session of a contract that
\* is not being renewed
MayOpenSession(id) == id \notin renewing

OpenSession(k, id) ==
    /\ id \in DOMAIN contracts
    /\ id \notin sessions[k]
    /\ MayOpenSession(id)
    /\ sessions' = [sessions EXCEPT ![k] = @ \cup {id}]
    /\ UNCHANGED <<notOfRenewContract, renewing, rpc, renewSet, ret, events, quiesce,
                   acquired>>

\* the owner closes what it opened
CloseSession(k, id) ==
    /\ id \in sessions[k]
    /\ ~(rpc = k /\ quiesce[k] /\ id = RenewedID)
    /\ sessions' = [sessions EXCEPT ![k] = @ \ {id}]
    /\ UNCHANGED <<notOfRenewContract, renewing, rpc, renewSet, ret, events, quiesce,
                   acquired>>

\* invalidate() is being waited for: the owner acknowledges
AcknowledgeInvalidation(k) ==
    /\ rpc = k /\ quiesce[k]
    /\ RenewedID \in sessions[k]
    /\ sessions' = [sessions EXCEPT ![k] = @ \ {RenewedID}]
    /\ UNCHANGED <<notOfRenewContract, renewing, rpc, renewSet, ret, events, quiesce,
                   acquired>>

\* "Mark the contract as being renewed"
MarkRenewing ==
    /\ rpc = "none"
    /\ \E id \in RenewableIDs :
          /\ renewSet' = <<[id |-> id, amount |-> MaxAmount]>>
          /\ renewing' = renewing \cup {id}
    /\ rpc' = "lookup"
    /\ events' = <<"mark">>
    /\ UNCHANGED <<notOfRenewContract, ret, renewVars>>

\* "e, eok := c.editors[id]", and the same of the downloader and the session
LookUpSessions ==
    /\ rpc = "lookup"
    /\ quiesce' = [k \in DOMAIN quiesce |-> RenewedID \in sessions[k]]
    /\ rpc' = SessionKinds[1]
    /\ UNCHANGED <<notOfRenewContract, renewing, renewSet, ret, events, sessions, acquired>>

\* invalidate() of what was found under k has returned, or nothing was found
InvalidatedUnwaited(k) == TRUE

Invalidated(k) == quiesce[k] => RenewedID \notin sessions[k]

\* "if eok { e.invalidate() }", and the same of the downloader and the session
InvalidateKind(n) ==
    /\ rpc = SessionKinds[n]
    /\ Invalidated(SessionKinds[n])
    /\ rpc' = IF n < Len(SessionKinds) THEN SessionKinds[n + 1] ELSE "acquire"
    /\ events' = IF n < Len(SessionKinds) THEN events ELSE Append(events, "invalidate")
    /\ UNCHANGED <<notOfRenewContract, renewing, renewSet, ret, renewVars>>

\* the deferred function unmarks the contract, and the function returns
ReturnUnmarked(fundsSpent, err) ==
    /\ renewing' = renewing \ {RenewedID}
    /\ ret' = Returned(fundsSpent, err)
    /\ rpc' = "returned"

\* "oldContract, exists := c.staticContracts.Acquire(id)"
AcquireContract ==
    /\ rpc = "acquire"
    /\ IF RenewedID \notin DOMAIN contracts
       THEN /\ ReturnUnmarked(0, TRUE)
            /\ UNCHANGED <<events, acquired>>
       ELSE /\ acquired' = acquired \cup {RenewedID}
            /\ rpc' = "revalidate"
            /\ events' = Append(events, "acquire")
            /\ UNCHANGED <<renewing, ret>>
    /\ UNCHANGED <<notOfRenewContract, renewSet, sessions, quiesce>>

\* "Return the contract if it's not useful for renewing."
RevalidateContract ==
    /\ rpc = "revalidate"
    /\ IF ~contracts[RenewedID].Utility.GoodForRenew
       THEN /\ acquired' = ReturnContract(acquired, RenewedID)
            /\ ReturnUnmarked(0, TRUE)
            /\ UNCHANGED events
       ELSE /\ rpc' = "negotiate"
            /\ events' = Append(events, "revalidate")
            /\ UNCHANGED <<renewing, ret, acquired>>
    /\ UNCHANGED <<notOfRenewContract, renewSet, sessions, quiesce>>

\* c.managedRenew begins to talk to the host
BeginNegotiation ==
    /\ rpc = "negotiate"
    /\ rpc' = "negotiating"
    /\ events' = Negotiated(events)
    /\ UNCHANGED <<notOfRenewContract, renewing, renewSet, ret, renewVars>>

\* c.managedRenew has returned, and the contract is returned or deleted
EndNegotiation ==
    /\ rpc = "negotiating"
    /\ \E renewed \in BOOLEAN :
          ReturnUnmarked(IF renewed THEN renewSet[1].amount ELSE 0, ~renewed)
    /\ acquired' = ReturnContract(acquired, RenewedID)
    /\ UNCHANGED <<notOfRenewContract, renewSet, events, sessions, quiesce>>

\* the caller goes on
AfterRenewContractOnItsOwn ==
    /\ rpc = "returned"
    /\ rpc' = "none"
    /\ renewSet' = <<>>
    /\ ret' = NoReturn
    /\ events' = <<>>
    /\ UNCHANGED <<notOfRenewContract, renewing, renewVars>>

\* the contracts of the renter when the renewal is asked for: a contract may
\* have lost its utility since it was planned
InitRenewContract ==
    /\ contracts \in {[i \in 1..NumHosts |->
                          [InitContract(i, 0) EXCEPT !.Utility = Utility(g[i], g[i], ~g[i])]]
                        : g \in [1..NumHosts -> BOOLEAN]}
    /\ allowance = [Funds |-> AllowanceFunds, Hosts |-> AllowanceHosts,
                    Period |-> AllowancePeriod, RenewWindow |-> AllowanceRenewWindow]
    /\ InitEngine
    /\ release = "standard"
    /\ InitConc
    /\ InitPure
    /\ InitStopChan

NextRenewContract ==
    \/ \E k \in DOMAIN sessions, id \in RenewableIDs :
          \/ OpenSession(k, id)
          \/ CloseSession(k, id)
    \/ \E k \in DOMAIN sessions : AcknowledgeInvalidation(k)
    \/ MarkRenewing
    \/ LookUpSessions
    \/ \E n \in DOMAIN SessionKinds : InvalidateKind(n)
    \/ AcquireContract
    \/ RevalidateContract
    \/ BeginNegotiation
    \/ EndNegotiation
    \/ AfterRenewContractOnItsOwn

SpecRenewContract == InitRenewContract /\ [][NextRenewContract]_vars

(***************************************************************************)
(* managedEstimateRenewFundingRequirements, taken on its own: currencies   *)
(* are naturals (types.Currency is a big integer that is never negative).  *)
(***************************************************************************)
\* largest NewFileSize of the contract's last revision
MaxData == 2
\* largest StoragePrice and UploadBandwidthPrice of a host
MaxPrice == 1
\* largest UploadSpending of the contract that is estimated
MaxSpending == 2
\* largest maximum fee the transaction pool estimates
MaxFee == 1
\* the funds of the allowance an estimate is made under
EstimateFunds == 40
\* the ContractPrice of a host
HostContractPrice == 1
\* the DownloadSpending of the contract that is estimated
OwnDownloadSpending == 1

\* fileContractMinimumFunding, in percent of the allowance
fileContractMinimumFunding == 15
\* modules.EstimatedFileContractTransactionSetSize
EstimatedFileContractTransactionSetSize == 2
\* the siafund fee of types.Tax, in percent of the payout
TaxPercent == 4
\* "i < 10e3": the hops after which the walk over the renew history gives up
HopGuard == 4
\* c.currentPeriod
CurrentPeriod == 1

\* the id of the contract that is estimated, and the ids of earlier contracts
EstimatedID == 3
EarlierIDs == 1..(EstimatedID - 1)

\* Currency.MulFloat: the product with a fraction, rounded down
MulFloat(x, percent) == (x * percent) \div 100

\* types.Tax: the siafund fee on a payout, rounded down
Tax(height, payout) == MulFloat(payout, TaxPercent)

\* what c.hdb.Host() returns: no host, a filtered host, or a host with prices
EstimateHosts ==
    {[exists |-> FALSE, Filtered |-> FALSE, StoragePrice |-> 0,
      UploadBandwidthPrice |-> 0, ContractPrice |-> 0],
     [exists |-> TRUE, Filtered |-> TRUE, StoragePrice |-> 0,
      UploadBandwidthPrice |-> 0, ContractPrice |-> 0]}
    \cup [exists : {TRUE}, Filtered : {FALSE}, StoragePrice : 0..MaxPrice,
          UploadBandwidthPrice : 0..MaxPrice, ContractPrice : {HostContractPrice}]

\* the superseded contracts of c.oldContracts: each earlier id is missing, or
\* started before the current period, or started inside of it
OldContract(i, startHeight) ==
    [StartHeight |-> startHeight, UploadSpending |-> i, DownloadSpending |-> 2 * i]

OldContractSets ==
    {[i \in S |-> OldContract(i, sh[i])] :
        S \in SUBSET EarlierIDs, sh \in [EarlierIDs -> {CurrentPeriod - 1, CurrentPeriod}]}

\* c.renewedFrom: the estimated contract and the earlier ones may each have a
\* predecessor (a cycle among them is what the hop guard is for)
RenewChains ==
    UNION {[S -> 1..EstimatedID] : S \in SUBSET (1..EstimatedID)}

\* "iterating over the renew history of the contract": the loop, hop by hop
RECURSIVE WalkRenewHistory(_, _, _, _, _)
WalkRenewHistoryPastPeriod(currentID, hops, up, down, in) ==
    IF hops = 0 \/ currentID \notin DOMAIN in.renewedFrom THEN <<up, down>>
    ELSE LET prev == in.renewedFrom[currentID]
         IN  IF prev \notin DOMAIN in.oldContracts THEN <<up, down>>
             ELSE IF in.oldContracts[prev].StartHeight < in.currentPeriod
                  THEN WalkRenewHistory(prev, hops - 1, up, down, in)
             ELSE WalkRenewHistory(prev, hops - 1,
                                   up + in.oldContracts[prev].UploadSpending,
                                   down + in.oldContracts[prev].DownloadSpending, in)

WalkRenewHistory(currentID, hops, up, down, in) ==
    IF hops = 0 \/ currentID \notin DOMAIN in.renewedFrom THEN <<up, down>>
    ELSE LET prev == in.renewedFrom[currentID]
         IN  IF prev \notin DOMAIN in.oldContracts THEN <<up, down>>
             ELSE IF in.oldContracts[prev].StartHeight < in.currentPeriod
                  THEN <<up, down>>
             ELSE WalkRenewHistory(prev, hops - 1,
                                   up + in.oldContracts[prev].UploadSpending,
                                   down + in.oldContracts[prev].DownloadSpending, in)

\* "Check for a sane minimum"
SaneMinimumUnclamped(estimatedCost, alw) == estimatedCost

SaneMinimum(estimatedCost, alw) ==
    LET minimum == MulFloat(alw.Funds, fileContractMinimumFunding) \div alw.Hosts
    IN  IF estimatedCost < minimum THEN minimum ELSE estimatedCost

\* "the amount of money that's going to be needed for existing storage"
MaintenanceCostFalling(dataStored, alw, host) == (MaxData - dataStored) * host.StoragePrice

MaintenanceCost(dataStored, alw, host) == dataStored * alw.Period * host.StoragePrice

\* the estimate for a contract with dataStored bytes in its last revision
EstimateFor(dataStored, in) ==
    LET host == in.host
        alw == in.allowance
        prev == WalkRenewHistory(in.contract.ID, HopGuard, in.contract.UploadSpending,
                                 in.contract.DownloadSpending, in)
        prevUploadSpending == prev[1]
        prevDownloadSpending == prev[2]
        byPrice == IF host.UploadBandwidthPrice # 0
                   THEN prevUploadSpending \div host.UploadBandwidthPrice
                   ELSE prevUploadSpending
        prevUploadDataEstimate == IF dataStored < byPrice THEN dataStored ELSE byPrice
        newUploadsCost == prevUploadSpending
                          + prevUploadDataEstimate * alw.Period * host.StoragePrice
        beforeSiafundFeesEstimate ==
            MaintenanceCost(dataStored, alw, host) + newUploadsCost
            + prevDownloadSpending + host.ContractPrice
        afterSiafundFeesEstimate ==
            Tax(in.blockHeight, beforeSiafundFeesEstimate) + beforeSiafundFeesEstimate
        txnFees == in.maxTxnFee * EstimatedFileContractTransactionSetSize
        estimatedCost == afterSiafundFeesEstimate + txnFees
        withMargin == estimatedCost + estimatedCost \div 3
    IN  IF ~host.exists \/ host.Filtered
        THEN [err |-> TRUE, amount |-> 0, prevUploadSpending |-> 0,
              prevDownloadSpending |-> 0]
        ELSE [err |-> FALSE, amount |-> SaneMinimum(withMargin, alw),
              prevUploadSpending |-> prevUploadSpending,
              prevDownloadSpending |-> prevDownloadSpending]

\* the arguments of one call and what the contractor holds when it is made;
\* moreData is a second file size, at least the contract's
EstimateInputs ==
    [contract : [ID : {EstimatedID}, NewFileSize : 0..MaxData,
                 UploadSpending : 0..MaxSpending,
                 DownloadSpending : {OwnDownloadSpending}],
     moreData : 0..MaxData,
     host : EstimateHosts,
     allowance : [Funds : {EstimateFunds}, Hosts : 1..AllowanceHosts,
                  Period : {AllowancePeriod}, RenewWindow : {AllowanceRenewWindow}],
     blockHeight : {InitHeight},
     maxTxnFee : 0..MaxFee,
     renewedFrom : RenewChains,
     oldContracts : OldContractSets,
     currentPeriod : {CurrentPeriod}]

\* the contractor is idle while the estimator and the planner are looked at
InitIdleMachine ==
    /\ contracts = [i \in 1..NumHosts |-> InitContract(i, 0)]
    /\ allowance = [Funds |-> AllowanceFunds, Hosts |-> AllowanceHosts,
                    Period |-> AllowancePeriod, RenewWindow |-> AllowanceRenewWindow]
    /\ InitEngine
    /\ release = "standard"
    /\ InitConc
    /\ InitStopChan

InitEstimate ==
    /\ InitIdleMachine
    /\ estIn \in {in \in EstimateInputs : in.contract.NewFileSize <= in.moreData}
    /\ estOut = [returned |-> FALSE]
    /\ planIn = "none"
    /\ planOut = <<>>
    /\ markIn = "none"
    /\ markOut = [returned |-> FALSE]

\* one call of managedEstimateRenewFundingRequirements, and the same call for
\* a contract that stores moreData
managedEstimateRenewFundingRequirements ==
    /\ ~estOut.returned
    /\ estOut' = [returned |-> TRUE,
                  of |-> EstimateFor(estIn.contract.NewFileSize, estIn),
                  ofMore |-> EstimateFor(estIn.moreData, estIn)]
    /\ UNCHANGED <<machineVars, estIn, planIn, planOut, markIn, markOut>>

SpecEstimate == InitEstimate /\ [][managedEstimateRenewFundingRequirements]_vars

(***************************************************************************)
(* The walk over the renew history, hop by hop: the estimator takes the    *)
(* contractor's lock, follows renewedFrom and gives the lock back.  estOut *)
(* holds where the call is: the lock, the loop counter i, currentID and    *)
(* the sums.                                                               *)
(***************************************************************************)
\* a loop that goes on whatever its counter
WithinHopGuardAlways(i) == TRUE

\* "i < 10e3"
WithinHopGuard(i) == i < HopGuard

\* the calls looked at: a host that is missing or one that is there, and every
\* renewedFrom and oldContracts
WalkInputs ==
    {in \in EstimateInputs :
        /\ in.contract.NewFileSize = 0 /\ in.moreData = 0
        /\ in.contract.UploadSpending = 0
        /\ in.maxTxnFee = 0
        /\ in.allowance.Hosts = AllowanceHosts
        /\ in.host.StoragePrice = 0 /\ in.host.UploadBandwidthPrice = 0
        /\ ~in.host.Filtered}

\* where a call is
Walk(returned, err, mu, walking, currentID, i, up, down, stopped) ==
    [returned |-> returned, err |-> err, mu |-> mu, walking |-> walking,
     currentID |-> currentID, i |-> i, up |-> up, down |-> down, stopped |-> stopped]

InitRenewHistory ==
    /\ InitIdleMachine
    /\ estIn \in WalkInputs
    /\ estOut = Walk(FALSE, FALSE, FALSE, FALSE, estIn.contract.ID, 0,
                     estIn.contract.UploadSpending, estIn.contract.DownloadSpending,
                     "none")
    /\ planIn = "none"
    /\ planOut = <<>>
    /\ markIn = "none"
    /\ markOut = [returned |-> FALSE]

\* the host is looked up; c.mu.Lock() and "currentID := contract.ID"
BeginWalk ==
    /\ ~estOut.returned /\ ~estOut.mu /\ estOut.stopped = "none"
    /\ estOut' = IF ~estIn.host.exists \/ estIn.host.Filtered
                 THEN [estOut EXCEPT !.returned = TRUE, !.err = TRUE]
                 ELSE [estOut EXCEPT !.mu = TRUE, !.walking = TRUE]
    /\ UNCHANGED <<machineVars, estIn, planIn, planOut, markIn, markOut>>

\* one turn of the loop
WalkHop ==
    /\ estOut.walking
    /\ LET id == estOut.currentID
           Break(why) == [estOut EXCEPT !.walking = FALSE, !.stopped = why]
       IN  estOut' =
              IF ~WithinHopGuard(estOut.i) THEN Break("hops")
              ELSE IF id \notin DOMAIN estIn.renewedFrom THEN Break("no predecessor")
              ELSE LET prev == estIn.renewedFrom[id]
                   IN  IF prev \notin DOMAIN estIn.oldContracts
                       THEN Break("missing predecessor")
                       ELSE IF estIn.oldContracts[prev].StartHeight < estIn.currentPeriod
                       THEN Break("outside the period")
                       ELSE [estOut EXCEPT
                                !.currentID = prev,
                                !.i = estOut.i + 1,
                                !.up = estOut.up + estIn.oldContracts[prev].UploadSpending,
                                !.down = estOut.down
                                            + estIn.oldContracts[prev].DownloadSpending]
    /\ UNCHANGED <<machineVars, estIn, planIn, planOut, markIn, markOut>>

\* c.mu.Unlock(), and the rest of the estimate
EndWalk ==
    /\ estOut.mu /\ ~estOut.walking
    /\ estOut' = [estOut EXCEPT !.mu = FALSE, !.returned = TRUE]
    /\ UNCHANGED <<machineVars, estIn, planIn, planOut, markIn, markOut>>

NextRenewHistory == BeginWalk \/ WalkHop \/ EndWalk

\* the goroutine that makes the call is scheduled as long as it can run
SpecRenewHistory ==
    InitRenewHistory /\ [][NextRenewHistory]_vars /\ WF_vars(NextRenewHistory)

(***************************************************************************)
(* The planner of threadedContractMaintenance, taken on its own: the loop  *)
(* that builds the renewSet and the refreshSet, run over one state of the  *)
(* contractor and the host directory.                                      *)
(***************************************************************************)
\* the TotalCost of the contracts that are planned
PlanTotalCost == 100
\* largest RenterFunds of a contract that has used up most of its funds
MaxRemaining == 3
\* number of times the planner is run over the same state
NumPlans == 2

\* modules.SectorSize
SectorSize == 1

\* what c.hdb.Host() returns to the planner: the zero value for a host the
\* directory does not know, a filtered host, a host whose prices are all
\* zero, a host with prices
PlanHost(exists, filtered, price) ==
    [exists |-> exists, Filtered |-> filtered, StoragePrice |-> price,
     UploadBandwidthPrice |-> price, DownloadBandwidthPrice |-> price,
     ContractPrice |-> price]

PlanHosts ==
    {PlanHost(FALSE, FALSE, 0), PlanHost(TRUE, TRUE, 0)}
    \cup {PlanHost(TRUE, FALSE, p) : p \in 0..MaxPrice}

\* a live contract with host i: its last revision stores i bytes
PlanContract(i, goodForRenew, endHeight, renterFunds) ==
    [ID |-> i, HostPublicKey |-> i, StartHeight |-> 0, EndHeight |-> endHeight,
     RenterFunds |-> renterFunds, TotalCost |-> PlanTotalCost,
     Utility |-> Utility(goodForRenew, goodForRenew, FALSE),
     NewFileSize |-> i, UploadSpending |-> 0, DownloadSpending |-> 0]

\* the contracts the planner may meet with host i: inside the renew window
\* (at its first block) or one block before it, with funds from nothing to
\* all of the contract's cost
PlanContracts(i) ==
    {PlanContract(i, g, e, f) :
        g \in BOOLEAN,
        e \in {InitHeight + AllowanceRenewWindow, InitHeight + AllowanceRenewWindow + 1},
        f \in 0..MaxRemaining \cup {PlanTotalCost}}

\* the state one run of the planner reads
PlanStates ==
    {[contracts |-> cs, hostdb |-> hs, blockHeight |-> InitHeight,
      allowance |-> [Funds |-> AllowanceFunds, Hosts |-> AllowanceHosts,
                     Period |-> AllowancePeriod, RenewWindow |-> AllowanceRenewWindow],
      maxTxnFee |-> 0, renewedFrom |-> EmptyMap, oldContracts |-> EmptyMap,
      currentPeriod |-> CurrentPeriod] :
        cs \in {c \in [Hosts -> UNION {PlanContracts(i) : i \in Hosts}] :
                   \A i \in Hosts : c[i].ID = i},
        hs \in [Hosts -> PlanHosts]}

\* the arguments of the estimate the planner asks for
EstimateArgs(contract, st) ==
    [contract |-> contract, host |-> st.hostdb[contract.HostPublicKey],
     allowance |-> st.allowance, blockHeight |-> st.blockHeight,
     maxTxnFee |-> st.maxTxnFee, renewedFrom |-> st.renewedFrom,
     oldContracts |-> st.oldContracts, currentPeriod |-> st.currentPeriod]

\* "sectorPrice": storage, upload and download of one sector
SectorPrice(host, alw) ==
    host.StoragePrice * (SectorSize * alw.Period)
    + (host.UploadBandwidthPrice * SectorSize + host.DownloadBandwidthPrice * SectorSize)

\* "Renew the contract with double the amount of funds"
RefreshAmount(contract) == contract.TotalCost * 2

\* the loop over c.staticContracts.ViewAll(), which visits the contracts in the order o
PlanWorkLists(o, st) ==
    LET ids == DOMAIN st.contracts
        hostOf(i) == st.hostdb[st.contracts[i].HostPublicKey]
        est == [i \in ids |->
                  EstimateFor(st.contracts[i].NewFileSize,
                              EstimateArgs(st.contracts[i], st))]
        plan == [i \in ids |->
                   PlanOf(st.contracts[i], hostOf(i).Filtered, est[i],
                          SectorPrice(hostOf(i), st.allowance), st.blockHeight,
                          st.allowance)]
    IN  [renewSet |-> WorkList(o, [i \in ids |-> plan[i] = "renew"],
                               [i \in ids |-> est[i].amount]),
         refreshSet |-> WorkList(o, [i \in ids |-> plan[i] = "refresh"],
                                 [i \in ids |-> RefreshAmount(st.contracts[i])])]

InitPlanner ==
    /\ InitIdleMachine
    /\ estIn = "none"
    /\ estOut = [returned |-> FALSE]
    /\ planIn \in PlanStates
    /\ planOut = <<>>
    /\ markIn = "none"
    /\ markOut = [returned |-> FALSE]

\* one run of the planner over planIn
PlanRun ==
    /\ Len(planOut) < NumPlans
    /\ \E o \in Orders(DOMAIN planIn.contracts) :
          planOut' = Append(planOut, PlanWorkLists(o, planIn))
    /\ UNCHANGED <<machineVars, estIn, estOut, planIn, markIn, markOut>>

SpecPlanner == InitPlanner /\ [][PlanRun]_vars

(***************************************************************************)
(* The classifier of managedMarkContractsUtility, taken on its own: the    *)
(* function that computes the utility of one contract from the contract,   *)
(* the host directory's record of its host, the minimum score, the height  *)
(* and the allowance.                                                      *)
(***************************************************************************)
\* largest score of a host, and largest minScore (zero: no host was drawn to
\* compare with)
MaxScore == 1

\* what c.hdb.Host(), c.hdb.ScoreBreakdown() and isOffline() say of a host
MarkHosts ==
    {[exists |-> e, Filtered |-> f, Score |-> sc, Offline |-> off, StoragePrice |-> p,
      UploadBandwidthPrice |-> p, DownloadBandwidthPrice |-> p] :
        e \in BOOLEAN, f \in BOOLEAN, sc \in 0..MaxScore, off \in BOOLEAN,
        p \in 0..MaxPrice}

\* the contracts the classifier may meet: with every utility, inside the renew
\* window (at its first block) or one block before it, with funds from nothing
\* to all of the contract's cost
MarkContracts ==
    {[PlanContract(1, TRUE, e, f) EXCEPT !.Utility = u] :
        u \in [GoodForUpload : BOOLEAN, GoodForRenew : BOOLEAN, Locked : BOOLEAN],
        e \in {InitHeight + AllowanceRenewWindow, InitHeight + AllowanceRenewWindow + 1},
        f \in 0..MaxRemaining
              \cup {minContractFundUploadThreshold - 1, minContractFundUploadThreshold,
                    PlanTotalCost}}

\* what the checks of the classifier make of the host, in their order: no
\* record or filtered, a poor score, offline
HostStateOf(host, minScore) ==
    IF ~host.exists THEN "missing"
    ELSE IF host.Filtered THEN "filtered"
    ELSE IF minScore # 0 /\ host.Score < minScore THEN "lowscore"
    ELSE IF host.Offline THEN "offline"
    ELSE "ok"

InitClassify ==
    /\ InitIdleMachine
    /\ estIn = "none"
    /\ estOut = [returned |-> FALSE]
    /\ planIn = "none"
    /\ planOut = <<>>
    /\ markIn \in [contract : MarkContracts, host : MarkHosts, minScore : 0..MaxScore,
                   blockHeight : {InitHeight},
                   allowance : {[Funds |-> AllowanceFunds, Hosts |-> AllowanceHosts,
                                 Period |-> AllowancePeriod,
                                 RenewWindow |-> AllowanceRenewWindow]}]
    /\ markOut = [returned |-> FALSE]

\* the function literal of the loop of managedMarkContractsUtility
ClassifyContract ==
    /\ ~markOut.returned
    /\ markOut' = [returned |-> TRUE,
                   u |-> ClassifyUtility(markIn.contract,
                                         HostStateOf(markIn.host, markIn.minScore),
                                         SectorPrice(markIn.host, markIn.allowance),
                                         markIn.blockHeight,
                                         markIn.allowance.RenewWindow)]
    /\ UNCHANGED <<machineVars, estIn, estOut, planIn, planOut, markIn>>

SpecClassify == InitClassify /\ [][ClassifyContract]_vars

(***************************************************************************)
(* Properties of the maintenance engine.                                   *)
(***************************************************************************)
\* C1: a live contract whose utility is Locked stays Locked, and neither its
\* GoodForUpload nor its GoodForRenew goes from false to true, in every step
\* of the engine that keeps the contract in the live set.
C1_LockedIsStable ==
    [][\A i \in DOMAIN contracts \cap DOMAIN contracts' :
          contracts[i].Utility.Locked =>
             /\ contracts'[i].Utility.Locked
             /\ contracts'[i].Utility.GoodForUpload => contracts[i].Utility.GoodForUpload
             /\ contracts'[i].Utility.GoodForRenew => contracts[i].Utility.GoodForRenew]_vars

\* the classifier has run over a live contract that is Locked
C1_Witness ==
    /\ pc = "plan"
    /\ \E i \in DOMAIN contracts : contracts[i].Utility.Locked

\* C2: when managedRenewContract returns the amount as spent, without an error,
\* after negotiation returned a new contract, the new contract is live with
\* utility {GoodForUpload, GoodForRenew}, the old id is no longer live,
\* oldContracts holds the old contract, and renewedFrom[new] = old and
\* renewedTo[old] = new.
C2_RenewalPostconditions ==
    (/\ InLoop /\ rpc = "returned"
     /\ newID # 0 /\ ~ret.err /\ ret.fundsSpent = CurrentSet[idx].amount)
    => LET old == CurrentSet[idx].id
       IN  /\ newID \in DOMAIN contracts
           /\ contracts[newID].Utility.GoodForUpload
           /\ contracts[newID].Utility.GoodForRenew
           /\ old \notin DOMAIN contracts
           /\ old \in DOMAIN oldContracts
           /\ oldContracts[old].HostPublicKey = contracts[newID].HostPublicKey
           /\ newID \in DOMAIN renewedFrom /\ renewedFrom[newID] = old
           /\ old \in DOMAIN renewedTo /\ renewedTo[old] = newID

\* C3: the funds reported spent by the renewals and refreshes of a pass never
\* exceed the fundsRemaining that budgeted execution began with, which is
\* max(0, allowance.Funds - totalAllocated); and a work item whose amount
\* exceeds the funds remaining at its turn is passed over: no contract is marked,
\* negotiated or counted as failed, and nothing is spent.
C3_BudgetIsRespected ==
    [][/\ spent' <= startFunds'
       /\ startFunds' >= 0 /\ startFunds' <= allowance'.Funds
       /\ (/\ pc \in {"renew", "refresh"} /\ rpc = "none" /\ idx <= Len(CurrentSet)
           /\ CurrentSet[idx].amount > fundsRemaining)
          => /\ rpc' = "none" /\ idx' = idx + 1 /\ pc' = pc
             /\ UNCHANGED <<contracts, numFailedRenews, renewing, nextID,
                            fundsRemaining, spent>>]_vars

\* funds were spent in this pass, and the next work item asks for more than remains
C3_Witness ==
    /\ pc \in {"renew", "refresh"} /\ rpc = "none" /\ idx <= Len(CurrentSet)
    /\ CurrentSet[idx].amount > fundsRemaining
    /\ spent > 0

\* C4: an item of the refreshSet is attempted only when every item of the
\* renewSet of the same pass has been attempted or skipped; a pass that is
\* cancelled in its renewSet loop attempts no refresh.
C4_RenewsBeforeRefreshes ==
    [][\A i \in renewing' \ renewing :
          i \in WorkIDs(refreshSet) => WorkIDs(renewSet) \subseteq handled]_vars

\* a refresh is being attempted in a pass that also had contracts to renew
C4_Witness ==
    /\ pc = "refresh" /\ rpc = "acquire"
    /\ renewSet # <<>>
    /\ WorkIDs(renewSet) \subseteq handled

\* C7: a contract whose renewal failed by the host's fault with its counter at
\* the threshold, in the second half of the renew window, has utility
\* {not GoodForUpload, not GoodForRenew, Locked}, and no later pass plans it
\* into the renewSet or the refreshSet.
C7_GivenUpContractsAreLocked ==
    [][/\ \A i \in blacklisted' \cap DOMAIN contracts' :
             contracts'[i].Utility = CanceledUtility
       /\ (pc = "plan" /\ pc' = "renew")
          => blacklisted \cap (WorkIDs(renewSet') \cup WorkIDs(refreshSet')) = {}]_vars

\* C8: no entry of renewedFrom or renewedTo is written a second time with a
\* different value, by a renewal, a refresh or the resolution of duplicates.
C8_LinksAreWrittenOnce ==
    [][/\ \A k \in DOMAIN renewedFrom \cap DOMAIN renewedFrom' :
             renewedFrom'[k] = renewedFrom[k]
       /\ \A k \in DOMAIN renewedTo \cap DOMAIN renewedTo' :
             renewedTo'[k] = renewedTo[k]
       /\ overwritten' = {}]_vars

\* C9: the predecessor of every key of renewedFrom is a key of oldContracts.
C9_PredecessorsAreStored ==
    \A n \in DOMAIN renewedFrom : renewedFrom[n] \in DOMAIN oldContracts

\* a renewal and a resolution of duplicates have both linked contracts
C9_Witness ==
    /\ rpc = "returned"
    /\ newID \in DOMAIN renewedFrom
    /\ Cardinality(DOMAIN renewedFrom) > 1

PastGate == {t \in Passes : tpc[t] \in {"work", "poll"}}

\* C5: at most one invocation of threadedContractMaintenance is past the gate;
\* outside test mode an invocation that finds the lock held returns: it does
\* not wait for the lock, does not take it and does none of the pass's work.
C5_OnePassAtATime ==
    [][/\ Cardinality(PastGate') <= 1
       /\ \A t \in Passes :
             /\ (/\ release # "testing" /\ tpc[t] = "gate" /\ maintenanceLock # 0
                 /\ tpc'[t] # "gate")
                => tpc'[t] = "refused" /\ maintenanceLock' = maintenanceLock
             /\ (tpc[t] = "refused" /\ tpc'[t] # "refused") => tpc'[t] = "idle"
             /\ t \in PastGate' => maintenanceLock' = t]_vars

\* an invocation was refused at the gate while another one is past it
C5_Witness ==
    \E t, u \in Passes : tpc[t] = "refused" /\ u \in PastGate

\* C6: when a call of managedInterruptContractMaintenance has returned, every
\* pass that held the maintenance lock when the call began has released it.
C6_InterruptWaitsForRelease ==
    \A i \in Callers : ipc[i] = "returned" => pending[i] = {}

\* two calls that began under a running pass have both returned
C6_Witness ==
    \A i \in Callers : ipc[i] = "returned" /\ heldAtCall[i] \in Passes

(***************************************************************************)
(* Properties of the funding estimator.                                    *)
(***************************************************************************)
\* C11: an estimate that is returned without an error is at least
\* allowance.Funds x fileContractMinimumFunding / allowance.Hosts, in whole
\* units of the currency.
C11_EstimateIsAtLeastTheMinimum ==
    (estOut.returned /\ ~estOut.of.err)
    => estOut.of.amount >=
          MulFloat(estIn.allowance.Funds, fileContractMinimumFunding)
             \div estIn.allowance.Hosts

\* an estimate was returned for a contract that nothing was stored in and
\* nothing was spent on: the computed cost is below the minimum
C11_Witness ==
    /\ estOut.returned /\ ~estOut.of.err
    /\ estIn.contract.NewFileSize = 0
    /\ estIn.contract.UploadSpending = 0
    /\ estIn.maxTxnFee = 0
    /\ estIn.allowance.Hosts = 1
    /\ estOut.of.amount = MulFloat(estIn.allowance.Funds, fileContractMinimumFunding)

\* C12: with everything else the same, the estimate for a contract that stores
\* more is not below the estimate for a contract that stores less.
C12_EstimateIsMonotonic ==
    (estOut.returned /\ ~estOut.of.err)
    => /\ ~estOut.ofMore.err
       /\ estOut.of.amount <= estOut.ofMore.amount

\* the estimate for the contract that stores more is the larger one
C12_Witness ==
    /\ estOut.returned /\ ~estOut.of.err
    /\ estIn.contract.NewFileSize < estIn.moreData
    /\ estOut.of.amount < estOut.ofMore.amount

\* the contracts met by following renewedFrom from the estimated contract: the
\* k-th predecessor, 0 when there is none
RECURSIVE Predecessor(_)
Predecessor(k) ==
    IF k = 0 THEN estIn.contract.ID
    ELSE LET p == Predecessor(k - 1)
         IN  IF p \in DOMAIN estIn.renewedFrom THEN estIn.renewedFrom[p] ELSE 0

\* the k-th predecessor is stored and started inside the current period
Counts(k) ==
    /\ Predecessor(k) \in DOMAIN estIn.oldContracts
    /\ estIn.oldContracts[Predecessor(k)].StartHeight >= estIn.currentPeriod

\* the predecessors that contribute: those before the first one that does not count
Contributing == {k \in 1..HopGuard : \A j \in 1..k : Counts(j)}

\* the spending of the first n predecessors
RECURSIVE UploadOf(_)
UploadOf(n) ==
    IF n = 0 THEN 0
    ELSE estIn.oldContracts[Predecessor(n)].UploadSpending + UploadOf(n - 1)

RECURSIVE DownloadOf(_)
DownloadOf(n) ==
    IF n = 0 THEN 0
    ELSE estIn.oldContracts[Predecessor(n)].DownloadSpending + DownloadOf(n - 1)

\* C13: the prior spending the estimator accumulates is the contract's own plus
\* that of the predecessors met before the first one that is missing from
\* oldContracts or started before the current period; none beyond it.
C13_SpendingOfThePeriod ==
    (estOut.returned /\ ~estOut.of.err)
    => /\ estOut.of.prevUploadSpending =
             estIn.contract.UploadSpending + UploadOf(Cardinality(Contributing))
       /\ estOut.of.prevDownloadSpending =
             estIn.contract.DownloadSpending + DownloadOf(Cardinality(Contributing))

\* the first predecessor counts, the second started before the period, and a
\* third one started inside of it
C13_Witness ==
    /\ estOut.returned /\ ~estOut.of.err
    /\ Predecessor(1) = 2 /\ Predecessor(2) = 1 /\ Predecessor(3) = 2
    /\ Counts(1) /\ ~Counts(2)
    /\ 1 \in DOMAIN estIn.oldContracts

(***************************************************************************)
(* Properties of the planner.                                              *)
(***************************************************************************)
\* the items of a work list that are for contract i
ItemsOf(set, i) == {k \in 1..Len(set) : set[k].id = i}

\* the host of a planned contract, and whether the contract is one the planner
\* looks at: its host is not filtered and its utility is GoodForRenew
PlannedHost(i) == planIn.hostdb[planIn.contracts[i].HostPublicKey]

Plannable(i) ==
    /\ ~PlannedHost(i).Filtered
    /\ planIn.contracts[i].Utility.GoodForRenew

InRenewWindow(i) ==
    planIn.blockHeight + planIn.allowance.RenewWindow >= planIn.contracts[i].EndHeight

\* the contract has less than three sectors' worth of funds, or less than
\* minContractFundRenewalThreshold percent of its cost
OutOfFunds(i) ==
    \/ planIn.contracts[i].RenterFunds < 3 * SectorPrice(PlannedHost(i), planIn.allowance)
    \/ planIn.contracts[i].RenterFunds * 100
          < minContractFundRenewalThreshold * planIn.contracts[i].TotalCost

\* C14: a live contract that is GoodForRenew, whose host is not filtered, that is
\* inside the renew window and whose estimate succeeds is in the renewSet, once,
\* with the estimator's amount, and is not in the refreshSet, whatever is left
\* of its funds.
C14_ExpiringContractsAreRenewed ==
    \A n \in 1..Len(planOut) : \A i \in DOMAIN planIn.contracts :
       LET estimate == EstimateFor(planIn.contracts[i].NewFileSize,
                                   EstimateArgs(planIn.contracts[i], planIn))
       IN  (Plannable(i) /\ InRenewWindow(i) /\ ~estimate.err)
           => /\ Cardinality(ItemsOf(planOut[n].renewSet, i)) = 1
              /\ \A k \in ItemsOf(planOut[n].renewSet, i) :
                    planOut[n].renewSet[k].amount = estimate.amount
              /\ ItemsOf(planOut[n].refreshSet, i) = {}

\* a contract inside the renew window with no funds left is in the renewSet
C14_Witness ==
    /\ planOut # <<>>
    /\ \E i \in DOMAIN planIn.contracts :
          /\ Plannable(i) /\ InRenewWindow(i) /\ OutOfFunds(i)
          /\ planIn.contracts[i].RenterFunds = 0
          /\ ItemsOf(planOut[1].renewSet, i) # {}

\* C15: a live contract that is GoodForRenew, whose host is not filtered and
\* that is outside the renew window is in the refreshSet, once, with twice its
\* TotalCost, when it is out of funds, and in neither set when it is not.
C15_ExhaustedContractsAreRefreshed ==
    \A n \in 1..Len(planOut) : \A i \in DOMAIN planIn.contracts :
       (Plannable(i) /\ ~InRenewWindow(i))
       => /\ ItemsOf(planOut[n].renewSet, i) = {}
          /\ IF OutOfFunds(i)
             THEN /\ Cardinality(ItemsOf(planOut[n].refreshSet, i)) = 1
                  /\ \A k \in ItemsOf(planOut[n].refreshSet, i) :
                        planOut[n].refreshSet[k].amount = 2 * planIn.contracts[i].TotalCost
             ELSE ItemsOf(planOut[n].refreshSet, i) = {}

\* a contract with 2 of 100 left and a host that charges nothing is refreshed,
\* a contract with 3 of 100 left and such a host is not
C15_Witness ==
    /\ planOut # <<>>
    /\ \E i, j \in DOMAIN planIn.contracts :
          /\ Plannable(i) /\ ~InRenewWindow(i)
          /\ SectorPrice(PlannedHost(i), planIn.allowance) = 0
          /\ planIn.contracts[i].RenterFunds = 2
          /\ ItemsOf(planOut[1].refreshSet, i) # {}
          /\ Plannable(j) /\ ~InRenewWindow(j)
          /\ SectorPrice(PlannedHost(j), planIn.allowance) = 0
          /\ planIn.contracts[j].RenterFunds = 3
          /\ ItemsOf(planOut[1].refreshSet, j) = {}

\* C16: two runs of the planner over the same contracts, hosts, allowance and
\* height give the same renewSet and the same refreshSet: the same ids with the
\* same amounts in the same order.
C16_PlanningIsIdempotent ==
    \A m, n \in 1..Len(planOut) : planOut[m] = planOut[n]

(***************************************************************************)
(* Properties of a pass's cleanup.                                         *)
(***************************************************************************)
\* C17: when a pass that took the maintenance lock has terminated, by whichever
\* of its returns, the maintenance lock is free.
C17_LockIsFreeAfterThePass ==
    pc = "idle" => maintenanceLock = 0

\* a pass that negotiated a contract has terminated
C17_Witness ==
    /\ pc = "idle"
    /\ nextID > MaxInitContracts + 1
    /\ maintenanceLock = 0

\* C18: the id of the work item is in c.renewing from the start of
\* managedRenewContract until it returns, and is not in it once the call has
\* returned, whatever the call returned.
C18_RenewingIsUnmarked ==
    /\ (InLoop /\ rpc \in {"acquire", "negotiate", "commit", "delete"})
       => CurrentSet[idx].id \in renewing
    /\ rpc \in {"none", "returned", "failed"} => renewing = {}

\* a call that gave up on its contract has returned an error
C18_Witness ==
    /\ InLoop /\ rpc = "returned" /\ ret.err
    /\ CurrentSet[idx].id \in blacklisted
    /\ renewing = {}

\* C19: between two negotiations of a pass, be they for a renewal, a refresh or
\* a new contract and whether the earlier one failed or not, the pass polls the
\* stop and the interrupt signal: no more than one negotiation has been
\* attempted since the signals were polled.
C19_SignalsArePolledBetweenNegotiations ==
    Cardinality({k \in DOMAIN events : events[k] = "negotiate"}) <= 1

(***************************************************************************)
(* Properties of the stop signal.                                          *)
(***************************************************************************)
\* C20: once the renter is stopped, every running invocation of
\* threadedContractMaintenance returns in the end.
C20_StoppedPassesReturn ==
    stopChan ~> (\A t \in Passes : tpc[t] = "idle")

(***************************************************************************)
(* C21: every call of managedInterruptContractMaintenance returns, however *)
(* many invocations of the maintenance run or wait for the lock and        *)
(* whether or not other callers interrupt at the same time.                *)
(***************************************************************************)
C21_InterruptReturns ==
    \A i \in Callers : (ipc[i] = "select") ~> (ipc[i] = "returned")

\* a call that began under a running pass has returned, while another caller is
\* still in its select and an invocation is at the gate
C21_Witness ==
    \E i, j \in Callers, t \in Passes :
       /\ i # j
       /\ ipc[i] = "returned" /\ heldAtCall[i] \in Passes
       /\ ipc[j] = "select"
       /\ tpc[t] = "gate"

(***************************************************************************)
(* C22: managedRenewContract marks, invalidates, acquires, re-validates    *)
(* and negotiates in this order; while it negotiates for an id, the id is  *)
(* marked as renewing and no editor, downloader or session of the id is    *)
(* valid.                                                                  *)
(***************************************************************************)
C22_NegotiationAfterQuiescing ==
    /\ \A n \in DOMAIN events :
          n <= 5 /\ events[n] = <<"mark", "invalidate", "acquire", "revalidate",
                                  "negotiate">>[n]
    /\ rpc \in {"negotiate", "negotiating"} =>
          /\ RenewedID \in renewing
          /\ \A k \in DOMAIN sessions : RenewedID \notin sessions[k]

\* the negotiation runs for a contract of which an editor, a downloader and a
\* session were found and invalidated, while a session of another contract is open
C22_Witness ==
    /\ rpc = "negotiating"
    /\ \A k \in DOMAIN quiesce : quiesce[k]
    /\ \E id \in DOMAIN contracts : id # RenewedID /\ id \in sessions["session"]

(***************************************************************************)
(* C23: when the contract is not in the contract set any more, or is not   *)
(* good for renew when it is looked at again, managedRenewContract does    *)
(* not negotiate: it returns no funds spent and an error, the contract is  *)
(* returned if it was acquired, and the contracts, their utilities, the    *)
(* renewal links, the failed-renew counters and oldContracts are as before.*)
(***************************************************************************)
C23_NoRenewalOfAGoneOrUselessContract ==
    [][(\/ rpc = "acquire" /\ RenewedID \notin DOMAIN contracts
        \/ rpc = "revalidate" /\ ~contracts[RenewedID].Utility.GoodForRenew)
       => /\ rpc' = "returned"
          /\ ret' = Returned(0, TRUE)
          /\ \A n \in DOMAIN events' : events'[n] # "negotiate"
          /\ RenewedID \notin acquired'
          /\ RenewedID \notin renewing'
          /\ UNCHANGED <<contracts, oldContracts, renewedFrom, renewedTo,
                         numFailedRenews>>]_<<rpc, ret, acquired>>

\* the contract was acquired, was found not to be good for renew, and the
\* function has returned
C23_Witness ==
    /\ rpc = "returned"
    /\ ret = Returned(0, TRUE)
    /\ events = <<"mark", "invalidate", "acquire">>
    /\ ~contracts[RenewedID].Utility.GoodForRenew
    /\ acquired = {}

(***************************************************************************)
(* C24: numFailedRenews[id] grows by exactly one with every renewal of id  *)
(* that fails with an error that is the host's fault, and a failure that   *)
(* is not the host's fault, a renewal that succeeds and an item that is    *)
(* skipped for want of funds leave it as it is.  (The counters that the    *)
(* planning of a pass forgets are the subject of C27.)                     *)
(***************************************************************************)
FailedRenews(counters, id) == IF id \in DOMAIN counters THEN counters[id] ELSE 0

C24_HostFaultsAreTallied ==
    [][pc # "plan" =>
          \A id \in 1..MaxID :
             LET hostFault == /\ InLoop /\ rpc = "negotiate" /\ rpc' = "returned"
                              /\ id = CurrentSet[idx].id
                              /\ \E n \in DOMAIN events' : events'[n] = "hostsfault"
             IN  FailedRenews(numFailedRenews', id) =
                    FailedRenews(numFailedRenews, id) + (IF hostFault THEN 1 ELSE 0)]_vars

\* a renewal has failed for the second time through the fault of the host
C24_Witness ==
    /\ InLoop /\ rpc = "returned"
    /\ \E n \in DOMAIN events : events[n] = "hostsfault"
    /\ FailedRenews(numFailedRenews, CurrentSet[idx].id) = 2

(***************************************************************************)
(* C25: a renewal that fails with an error that is not the host's fault    *)
(* leaves the utility of the contract and its failed-renew counter as they *)
(* are, whatever the counter and the height: the contract is tried again   *)
(* in the next pass.  (Contracts that an earlier pass gave up on without   *)
(* locking them, C7, are left aside.)                                      *)
(***************************************************************************)
C25_OtherFailuresAreRetried ==
    [][(/\ InLoop /\ rpc = "negotiate" /\ rpc' = "returned"
        /\ CurrentSet[idx].id \notin blacklisted
        /\ \A n \in DOMAIN events' : events'[n] # "hostsfault")
       => LET id == CurrentSet[idx].id
          IN  /\ id \in DOMAIN contracts'
              /\ contracts'[id].Utility = contracts[id].Utility
              /\ numFailedRenews' = numFailedRenews]_vars

(***************************************************************************)
(* C26: a renewal that fails changes the utility of the contract only when *)
(* its failed-renew counter has reached consecutiveRenewalsBeforeReplace-  *)
(* ment and the height is in the second half of the renew window; every    *)
(* other failure leaves the utility as it was and the contract in the set. *)
(***************************************************************************)
C26_UtilityChangesOnlyWhenGivenUp ==
    [][(/\ InLoop /\ rpc \in {"acquire", "negotiate"} /\ rpc' = "returned")
       => LET id == CurrentSet[idx].id
          IN  /\ DOMAIN contracts' = DOMAIN contracts
              /\ \A i \in DOMAIN contracts \ {id} : contracts'[i] = contracts[i]
              /\ id \in DOMAIN contracts =>
                    \/ contracts'[id] = contracts[id]
                    \/ /\ FailedRenews(numFailedRenews', id)
                             >= consecutiveRenewalsBeforeReplacement
                       /\ blockHeight + (allowance.RenewWindow \div 2)
                             >= contracts[id].EndHeight
                       /\ rpc = "negotiate"]_vars

\* the renewal failed through the fault of the host for the second time, in the
\* second half of the renew window, and the contract was locked
C26_Witness ==
    /\ InLoop /\ rpc = "returned" /\ ret.err
    /\ events = <<"negotiate", "hostsfault", "blacklist">>
    /\ contracts[CurrentSet[idx].id].Utility = CanceledUtility

(***************************************************************************)
(* C27: the planning of a pass leaves in the failed-renew map the counters *)
(* of the ids of the renewSet and the refreshSet, each with the value it   *)
(* had, and forgets the others.                                            *)
(***************************************************************************)
C27_StaleCountersAreForgotten ==
    [][pc = "plan" /\ pc' # "plan"
       => LET planned == WorkIDs(renewSet') \cup WorkIDs(refreshSet')
          IN  /\ DOMAIN numFailedRenews' = DOMAIN numFailedRenews \cap planned
              /\ \A id \in DOMAIN numFailedRenews' :
                    numFailedRenews'[id] = numFailedRenews[id]]_vars

\* a pass has just planned: the counter of a contract that was given up on and
\* locked is gone, and the counter of a contract that is to be renewed was kept
C27_Witness ==
    /\ pc = "renew" /\ rpc = "none" /\ idx = 1 /\ handled = {}
    /\ \E id \in blacklisted :
          /\ id \in DOMAIN contracts /\ contracts[id].Utility.Locked
          /\ id \notin DOMAIN numFailedRenews
    /\ \E id \in WorkIDs(renewSet) : id \in DOMAIN numFailedRenews

(***************************************************************************)
(* C28: when managedMarkContractsUtility returns an error the pass returns:*)
(* nothing is planned, the failed-renew map is not reset, and no renewal,  *)
(* refresh or formation is negotiated in the pass.                         *)
(***************************************************************************)
C28_FailedClassificationEndsThePass ==
    [][pc = "unmarked"
       => /\ renewSet = <<>> /\ refreshSet = <<>> /\ events = <<>> /\ handled = {}
          /\ pc' = "idle"
          /\ maintenanceLock' = 0
          /\ renewSet' = <<>> /\ refreshSet' = <<>> /\ events' = <<>>
          /\ UNCHANGED contractorVars]_vars

\* the classifier has returned an error in a pass that has a contract inside the
\* renew window to plan and a failed-renew counter to reset
C28_Witness ==
    /\ pc = "unmarked"
    /\ numFailedRenews # EmptyMap
    /\ \E id \in DOMAIN contracts :
          /\ contracts[id].Utility.GoodForRenew
          /\ blockHeight + allowance.RenewWindow >= contracts[id].EndHeight

(***************************************************************************)
(* C29: the classifier gives a contract whose host is not in the host      *)
(* directory, is filtered, has a score below the minimum or is offline     *)
(* GoodForUpload = false and GoodForRenew = false, whatever its utility    *)
(* was and whatever its funds and its end height are.                      *)
(***************************************************************************)
HostIsUseless ==
    \/ ~markIn.host.exists
    \/ markIn.host.Filtered
    \/ markIn.host.Score < markIn.minScore
    \/ markIn.host.Offline

C29_UselessHostsGiveNoUtility ==
    markOut.returned /\ HostIsUseless
       => ~markOut.u.GoodForUpload /\ ~markOut.u.GoodForRenew

\* a contract that was good for upload and renew, outside the renew window and
\* with all its funds, whose host has a poor score and nothing else against it
C29_Witness ==
    /\ markOut.returned
    /\ markIn.host.exists /\ ~markIn.host.Filtered /\ ~markIn.host.Offline
    /\ markIn.host.Score < markIn.minScore
    /\ markIn.contract.Utility = Utility(TRUE, TRUE, FALSE)
    /\ markIn.contract.RenterFunds = markIn.contract.TotalCost
    /\ markIn.blockHeight + markIn.allowance.RenewWindow < markIn.contract.EndHeight
    /\ markOut.u = Utility(FALSE, FALSE, FALSE)

(***************************************************************************)
(* C30: the classifier gives an unlocked contract whose host is there,     *)
(* not filtered, well scored and online GoodForRenew = true, whatever its  *)
(* utility was, and GoodForUpload = true exactly when the contract is      *)
(* outside the renew window and its funds pay for three sectors and are at *)
(* least minContractFundUploadThreshold of its TotalCost.                  *)
(***************************************************************************)
C30_GoodHostsKeepRenewAndMaybeUpload ==
    markOut.returned /\ ~HostIsUseless /\ ~markIn.contract.Utility.Locked
       => LET c == markIn.contract
              h == markIn.host
              threeSectors ==
                 3 * (h.StoragePrice * markIn.allowance.Period
                      + h.UploadBandwidthPrice + h.DownloadBandwidthPrice) * SectorSize
          IN  /\ markOut.u.GoodForRenew
              /\ ~markOut.u.Locked
              /\ markOut.u.GoodForUpload <=>
                    /\ markIn.blockHeight + markIn.allowance.RenewWindow < c.EndHeight
                    /\ c.RenterFunds >= threeSectors
                    /\ c.RenterFunds * 100 >= minContractFundUploadThreshold * c.TotalCost

\* a contract that had lost its utility without being locked, outside the renew
\* window, whose funds are above the threshold and do not pay for three sectors:
\* it is good for renew again and not for upload
C30_Witness ==
    /\ markOut.returned /\ ~HostIsUseless
    /\ markIn.contract.Utility = Utility(FALSE, FALSE, FALSE)
    /\ markIn.blockHeight + markIn.allowance.RenewWindow < markIn.contract.EndHeight
    /\ markIn.contract.RenterFunds = minContractFundUploadThreshold
    /\ markIn.host.StoragePrice > 0
    /\ markOut.u = Utility(FALSE, TRUE, FALSE)


(***************************************************************************)
(* C31.  When managedCheckForDuplicates has run, whatever the order in     *)
(* which ViewAll() returned the contracts and however many of them share a *)
(* host: no two live contracts have the same host; the contract that is    *)
(* left has the latest start height of the contracts its host had; every   *)
(* contract that was removed is in oldContracts with the metadata it had,  *)
(* and following renewedTo from it leads to the contract that is left.     *)
(***************************************************************************)
\* the live contracts of host h in the contract set cs
ContractsOf(cs, h) == {i \in DOMAIN cs : cs[i].HostPublicKey = h}

\* following `links` from id `from` leads to id `to` within `hops` steps
RECURSIVE Leads(_, _, _, _)
Leads(links, from, to, hops) ==
    \/ from = to
    \/ /\ hops > 0
       /\ from \in DOMAIN links
       /\ Leads(links, links[from], to, hops - 1)

C31_DuplicatesAreResolved ==
    [][pc = "dups" /\ pc' = "prune" =>
          /\ \A i, j \in DOMAIN contracts' :
                contracts'[i].HostPublicKey = contracts'[j].HostPublicKey => i = j
          /\ \A i \in DOMAIN contracts' :
                \A j \in ContractsOf(contracts, contracts'[i].HostPublicKey) :
                   contracts[j].StartHeight <= contracts'[i].StartHeight
          /\ \A o \in DOMAIN contracts \ DOMAIN contracts' :
                /\ o \in DOMAIN oldContracts'
                /\ oldContracts'[o] = contracts[o]
                /\ \E n \in ContractsOf(contracts', contracts[o].HostPublicKey) :
                      Leads(renewedTo', o, n, MaxID)]_vars

\* three contracts of one host have been resolved into one
C31_Witness ==
    /\ pc = "prune"
    /\ Cardinality(DOMAIN contracts) = 1
    /\ Cardinality(DOMAIN oldContracts) = 2
    /\ \A o \in DOMAIN oldContracts : o \in DOMAIN renewedTo

(***************************************************************************)
(* C32.  After the cleanup of a pass, managedCheckForDuplicates and then   *)
(* managedPrunePubkeyMap, pubKeysToContractID is the index that the live   *)
(* contract set gives: one entry for every host that has a live contract,  *)
(* under the host's public key, with the id of that contract; no entry has *)
(* the id of a contract that was deleted or superseded.                    *)
(***************************************************************************)
\* the index reconstructed from a contract set with one contract per host
Reconstructed(cs) ==
    [k \in {StringKey(cs[i].HostPublicKey) : i \in DOMAIN cs} |->
        CHOOSE i \in DOMAIN cs : cs[i].HostPublicKey = k[2]]

C32_IndexIsTheLiveSets ==
    [][pc = "prune" /\ pc' = "iprange" =>
          /\ \A k \in DOMAIN pubKeysToContractID' :
                pubKeysToContractID'[k] \in DOMAIN contracts'
          /\ pubKeysToContractID' = Reconstructed(contracts')]_vars

FormedInPass(cs) == {i \in DOMAIN cs : i >= FirstFormedID}

\* the contracts good for upload that gap filling counted
CountedForUpload(cs) ==
    Cardinality({i \in DOMAIN cs : i < FirstFormedID /\ cs[i].Utility.GoodForUpload})

C34_GapFillingFillsTheGap ==
    [][/\ IF CountedForUpload(contracts) >= allowance.Hosts
          THEN FormedInPass(contracts') = {}
          ELSE Cardinality(FormedInPass(contracts'))
                  <= allowance.Hosts - CountedForUpload(contracts)
       /\ pc = "form" /\ Len(events') > Len(events) =>
             /\ hosts[idx] \notin {contracts[i].HostPublicKey : i \in DOMAIN contracts}
             /\ hosts[idx] \notin recoverableContracts]_vars

\* one contract was needed and has been formed, while a second candidate host
\* and the funds for a second contract are there
C34_Witness ==
    /\ pc = "form" /\ rpc = "returned"
    /\ neededContracts = 1
    /\ idx < Len(hosts)
    /\ fundsRemaining >= InitialContractFunds(allowance)
    /\ Cardinality(FormedInPass(contracts)) = 1
    /\ contracts[newID].Utility.GoodForUpload

(***************************************************************************)
(* C35.  A contract that the pass acquired from the live set is handed     *)
(* back, by Return or by Delete, before the function that acquired it      *)
(* returns, whatever path the function takes: a contract is held only      *)
(* inside managedRenewContract, between its Acquire and its return, and it *)
(* is the contract being renewed; managedCheckForDuplicates and            *)
(* managedUpdateContractUtility hold nothing when they are over; every     *)
(* change of the held set takes one contract that was not held or gives    *)
(* back one that was; nothing is held when the pass has ended.             *)
(***************************************************************************)
C35_AcquiredIsReleased ==
    [][/\ acquired' # {} =>
             /\ pc' \in {"renew", "refresh"}
             /\ rpc' \in {"negotiate", "commit", "delete"}
             /\ acquired' = {CurrentSet'[idx'].id}
       /\ acquired' # acquired =>
             \/ \E id \in DOMAIN contracts : id \notin acquired /\ acquired' = acquired \cup {id}
             \/ \E id \in acquired : acquired' = acquired \ {id}
       /\ rpc' = "returned" => acquired' = {}
       /\ pc' = "idle" => acquired' = {}]_vars

\* a renewal that the host let fail has returned: the contract was acquired,
\* negotiated with, and is held no more
C35_Witness ==
    /\ pc \in {"renew", "refresh"} /\ rpc = "returned"
    /\ ret.err
    /\ \E i \in DOMAIN events : events[i] = "hostsfault"
    /\ acquired = {}
    /\ renewing = {}

(***************************************************************************)
(* C36.  managedEstimateRenewFundingRequirements returns, with the         *)
(* contractor's lock given back, whatever renewedFrom and oldContracts     *)
(* hold, a cycle of renewals included.  The walk ends where a contract has *)
(* no predecessor, where the predecessor is not in oldContracts, at the    *)
(* first predecessor that started before the current period, or when the   *)
(* loop has made as many hops as the guard allows; the sums are those of   *)
(* the predecessors passed.                                                *)
(***************************************************************************)
C36_WalkEndsAndUnlocks ==
    /\ [](/\ estOut.i <= HopGuard
          /\ estOut.returned =>
                /\ ~estOut.mu
                /\ ~estOut.err =>
                      /\ estOut.stopped \in {"hops", "no predecessor",
                                             "missing predecessor", "outside the period"}
                      /\ estOut.stopped = "hops" <=> estOut.i = HopGuard
                      /\ <<estOut.up, estOut.down>> =
                            WalkRenewHistory(estIn.contract.ID, HopGuard,
                                             estIn.contract.UploadSpending,
                                             estIn.contract.DownloadSpending, estIn))
    /\ <>(estOut.returned /\ ~estOut.mu)

\* renewedFrom holds a cycle of contracts of the period: the walk was ended by
\* the guard and the call has returned
C36_Witness ==
    /\ estOut.returned /\ ~estOut.mu
    /\ estOut.stopped = "hops"
    /\ estOut.i = HopGuard
    /\ estOut.currentID \in DOMAIN estIn.renewedFrom
    /\ estOut.up > estIn.contract.UploadSpending

(***************************************************************************)
(* C37.  The decisions of one pass, the classification, the renew-window   *)
(* tests, the funding estimates, the funds that remain, the count of the   *)
(* contracts that are needed and the initial contract funds, are all made  *)
(* with one and the same allowance, also when the owner sets a new         *)
(* allowance while the pass runs.                                          *)
(***************************************************************************)
C37_OneAllowancePerPass ==
    \A d, e \in DOMAIN allowanceUsed : allowanceUsed[d] = allowanceUsed[e]

(***************************************************************************)
(* C38.  In every intermediate state of a renewal and of a duplicate       *)
(* resolution the superseded contract is in the live set or in             *)
(* oldContracts: its links and its oldContracts entry are written and      *)
(* saved while it is still live, and only then is it deleted, so that no   *)
(* step takes a live contract to neither place.                            *)
(***************************************************************************)
C38_SupersededIsSomewhere ==
    [][/\ pc = "dups" =>
             \A o \in Orders(DOMAIN contracts) :
                CheckDuplicates(DuplicateCheckStart, o, 1).neither = {}
       /\ (InLoop /\ rpc = "delete") =>
             LET id == CurrentSet[idx].id
             IN  /\ id \in DOMAIN contracts /\ id \in DOMAIN oldContracts
                 /\ id \in DOMAIN renewedTo /\ renewedTo[id] = newID
                 /\ newID \in DOMAIN renewedFrom /\ renewedFrom[newID] = id
                 /\ events # <<>> /\ events[Len(events)] = "save"
       /\ \A id \in DOMAIN contracts :
             id \in DOMAIN contracts' \/ id \in DOMAIN oldContracts']_vars

\* a renewal has linked, stored and saved the contract it supersedes and has
\* not deleted it yet; the duplicate resolution of the pass had stored and
\* deleted an older contract of the same host
C38_Witness ==
    /\ InLoop /\ rpc = "delete"
    /\ LET id == CurrentSet[idx].id
       IN  /\ id \in DOMAIN contracts /\ id \in DOMAIN oldContracts
           /\ \E o \in DOMAIN oldContracts :
                 /\ o # id /\ o \notin DOMAIN contracts
                 /\ o \in DOMAIN renewedTo /\ renewedTo[o] = id

(***************************************************************************)
(* C39.  After every completed renewal, refresh and duplicate resolution   *)
(* renewedFrom and renewedTo are inverses of one another: renewedTo[o] = n *)
(* exactly if renewedFrom[n] = o, also when three contracts of one host    *)
(* were live.                                                              *)
(***************************************************************************)
C39_LinksAreMutualInverses ==
    \A o, n \in 1..MaxID :
       (o \in DOMAIN renewedTo /\ renewedTo[o] = n)
          <=> (n \in DOMAIN renewedFrom /\ renewedFrom[n] = o)

(***************************************************************************)
(* C40.  A TransferNFT that fails after StartTransaction returns an error  *)
(* that is not nil and drops its transaction builder, also when the        *)
(* custody output of the NFT is not among the wallet's outputs: it never   *)
(* returns (nil, nil) and submits no transaction then.  MintNFT and        *)
(* TransferNFT start no transaction builder when consensus is not synced   *)
(* or the wallet is locked.                                                *)
(***************************************************************************)
C40_TransferFailsWithAnError ==
    /\ (wallet.call = "TransferNFT" /\ wallet.builder # "none" /\ wallet.txns = Nil) =>
          /\ wallet.err # Nil
          /\ wallet.builder = "dropped"
          /\ ~wallet.submitted
    /\ (wallet.call = "TransferNFT" /\ ~wallet.found) =>
          /\ wallet.err # Nil
          /\ ~wallet.submitted
    /\ (wallet.call \in {"MintNFT", "TransferNFT"}
           /\ (~wallet.synced \/ ~wallet.unlocked)) =>
          /\ wallet.builder = "none"
          /\ wallet.err # Nil
          /\ ~wallet.submitted

====
